---- MODULE Spec2Model ----
(***************************************************************************)
(* Model of withmock: the toggle state and the dispatchers of a generated  *)
(* package (lib/mock.go, mockGen.pkg and funcInfo.writeMock), the cache    *)
(* key derivation (cache/keys.go) and the scope rewriter (scopeName).      *)
(***************************************************************************)
EXTENDS Integers, Sequences, FiniteSets, TLC

VARIABLES
    allMocked,      \* _allMocked: the global "all mocked" flag
    enabledMocks,   \* _enabledMocks: a Go map, [isNil, keys]
    disabledMocks,  \* _disabledMocks: a Go map, never nil: its key set
    pc,             \* "idle", "inits" (inside callInits' loop), "panic"
    mocked,         \* callInits' local `mocked`
    savedEnabled,   \* callInits' local `enabledMocks`
    initsLeft,      \* init routines callInits has still to run (current one included)
    pre,            \* toggle state at the last call of callInits
    initMockAll,    \* an init routine of the running callInits called MockAll
    wasEnabled,     \* names EnableMock has put into the enabled set
    call,           \* the latest dispatcher call: its symbol, its caller and where it went
    disp,           \* the latest dispatcher call in full: arguments, route, results
    fs,             \* the files a cache key can name: path -> content, or Missing
    keys,           \* the CacheFileKey instances made so far
    keyCalcs,       \* how many times calcHash ran on each key
    keyRets,        \* the strings Hash() has returned for each key
    newRes,         \* the latest NewCacheFileKey call and what it returned
    scName,         \* the type expression text given to scopeName
    scScope,        \* the scope given to scopeName
    scOnce,         \* scopeName(scName, scScope)
    scTwice,        \* scopeName(scOnce, scScope)
    scPc,           \* "idle", "in", "once" or "twice": how far the rewriting went
    scFi,           \* the function record AddScope is called on
    scCopy,         \* the function record AddScope returned
    gPc,            \* MakePkg: "idle", "between" (files), "file" (inside m.file), "done", "failed", "panicked"
    cfg,            \* the MockConfig: callInits (!IgnoreInits) and mockPrototypes
    todo,           \* the files of pkg.Files that the range loop has not reached yet
    cur,            \* the file m.file is generating
    buildTags,      \* m.file's buildTags
    nRead,          \* how many declarations were read so far
    out,            \* the generated files: path -> the items written to it
    inits,          \* m.file's inits
    initCount,      \* m.initCount
    recorders,      \* m.recorders: receiver type text -> recorder type name
    types,          \* m.types: type name -> its type expression
    extFunctions,   \* m.extFunctions
    imports,        \* m.file's imports: the import paths the file registered
    importSet,      \* MakePkg's imports: the paths of the files generated so far
    scaffold,       \* the items m.pkg wrote to the scaffold file
    srcRead,        \* the source as read so far: path -> build tags and declarations
    run,            \* 1 in the first run of MakePkg, 2 in the second one over the same source
    firstRun,       \* what the first run read and wrote: [src, out, scaffold]
    mkLabel,        \* the import label given to markImport
    mkMark,         \* the mark given to markImport
    mkOut,          \* markImport(mkLabel, mkMark)
    mkGot,          \* getMark(mkOut)
    mkPc,           \* "idle", "in", "marked", "read" or "panic"
    erVal,          \* an error value: a root cause under nested utils.Err values
    erLabels,       \* the Ctxt labels put around the root cause, outermost first
    erRoot,         \* the root cause
    erRead,         \* what Context(), Error() and IsNotExist gave for erVal
    erPc            \* "idle", "built" or "read"

\* the state of the generated package
toggleVars == <<allMocked, enabledMocks, disabledMocks, pc, mocked, savedEnabled, initsLeft>>

\* what the properties remember of the run
histVars == <<pre, initMockAll, wasEnabled, call>>

\* the cache keys and the files they are made from
cacheVars == <<fs, keys, keyCalcs, keyRets, newRes>>

\* the scope rewriter at work
scopeVars == <<scName, scScope, scOnce, scTwice, scPc, scFi, scCopy>>

\* the generator at work
genVars == <<gPc, cfg, todo, cur, buildTags, nRead, out, inits, initCount, recorders,
             types, extFunctions, imports, importSet, scaffold, srcRead, run, firstRun>>

\* the import marks
markVars == <<mkLabel, mkMark, mkOut, mkGot, mkPc>>

\* the errors with context
errVars == <<erVal, erLabels, erRoot, erRead, erPc>>

\* the generator and the helpers of the other packages
moreVars == <<genVars, markVars, errVars>>

\* what the control surface and callInits never touch
restVars == <<disp, cacheVars, scopeVars, moreVars>>

----------------------------------------------------------------------------
(* Bounds *)

\* the longest list of init routines passed to callInits
MaxInits == 2

\* scoped names of the dispatched symbols ("Name" or "Type.Method")
Names == {"Add", "T.Get"}

----------------------------------------------------------------------------
(* Go maps used as sets of names *)

\* make(map[string]bool)
EmptyMap == [isNil |-> FALSE, keys |-> {}]

\* a nil map: reads find nothing, delete is a no-op, assignment panics
NilMap == [isNil |-> TRUE, keys |-> {}]

\* the toggle state as one value
Toggle == [all |-> allMocked, en |-> enabledMocks, dis |-> disabledMocks]

\* the value the package variables are given when the package is loaded
DefaultToggle == [all |-> FALSE, en |-> EmptyMap, dis |-> {}]

\* no dispatcher was called yet
NoCall == [name |-> "", realDisabled |-> FALSE, route |-> "none", from |-> "idle"]

\* no dispatcher was called yet
NoDisp == [fn |-> "", route |-> "none"]

\* the paths a cache key is asked for
Paths == {"a.go", "b.go"}

\* a path that cannot be resolved
Missing == "missing"

\* no key was asked for yet
NoNew == [op |-> "", srcs |-> <<>>]

----------------------------------------------------------------------------
(* The dispatcher's routing test *)

\* mutant: the negation of _allMocked is lost
ForwardsToReal_NoNeg(all, en, dis, name) ==
    (all /\ name \notin en) \/ name \in dis

\* mutant: the disabled set is not consulted
ForwardsToReal_NoDisabled(all, en, dis, name) ==
    ~all /\ name \notin en

\* if (!_allMocked && !_enabledMocks[name]) || _disabledMocks[name]
ForwardsToReal(all, en, dis, name) ==
    (~all /\ name \notin en) \/ name \in dis

\* mutant: the forwarding test is written whether the real form is disabled
\* or not
Route_IgnoreRealDisabled(name, realDisabled) ==
    IF ForwardsToReal(allMocked, enabledMocks.keys, disabledMocks, name)
    THEN "real" ELSE "ctrl"

\* where the dispatcher of a symbol sends a call in the current toggle state
Route(name, realDisabled) ==
    IF ~realDisabled /\ ForwardsToReal(allMocked, enabledMocks.keys, disabledMocks, name)
    THEN "real" ELSE "ctrl"

----------------------------------------------------------------------------
(* The control surface *)

\* mutant: MockAll sets the global flag and leaves the two sets as they are
MockAllState_KeepSets(b) == [all |-> b, en |-> enabledMocks, dis |-> disabledMocks]

\* MockAll(enabled): the state it leaves
MockAllState(b) == [all |-> b, en |-> EmptyMap, dis |-> {}]

\* EnableMock(names...) on a non-nil map: the state it leaves
EnableMockState(names) ==
    [all |-> allMocked,
     en |-> [isNil |-> FALSE, keys |-> enabledMocks.keys \cup names],
     dis |-> disabledMocks \ names]

\* DisableMock(names...): delete on a nil map is a no-op
DisableMockState(names) ==
    [all |-> allMocked,
     en |-> [isNil |-> enabledMocks.isNil, keys |-> enabledMocks.keys \ names],
     dis |-> disabledMocks \cup names]

SetToggle(t) ==
    /\ allMocked' = t.all
    /\ enabledMocks' = t.en
    /\ disabledMocks' = t.dis

\* one of the three operations, called by test code (pc = "idle")
\* or by an init routine (pc = "inits")
MockAll(b) ==
    /\ pc \in {"idle", "inits"}
    /\ pc = "inits" => initsLeft > 0
    /\ SetToggle(MockAllState(b))
    /\ initMockAll' = (pc = "inits" \/ initMockAll)
    /\ UNCHANGED <<pc, mocked, savedEnabled, initsLeft, pre, wasEnabled, call, restVars>>

EnableMockOp(names) ==
    /\ pc \in {"idle", "inits"}
    /\ pc = "inits" => initsLeft > 0
    /\ names # {}
    /\ ~enabledMocks.isNil
    /\ SetToggle(EnableMockState(names))
    /\ UNCHANGED <<pc, mocked, savedEnabled, initsLeft, pre, initMockAll, call, restVars>>

\* EnableMock, the names it was given being remembered
EnableMock(names) ==
    /\ EnableMockOp(names)
    /\ wasEnabled' = wasEnabled \cup names

\* EnableMock, nothing being remembered
EnableMockOnly(names) ==
    /\ EnableMockOp(names)
    /\ UNCHANGED wasEnabled

\* EnableMock on the nil map callInits installs: "assignment to entry in nil map"
EnableMockPanic(names) ==
    /\ pc = "inits"
    /\ initsLeft > 0
    /\ names # {}
    /\ enabledMocks.isNil
    /\ pc' = "panic"
    /\ UNCHANGED <<allMocked, enabledMocks, disabledMocks, mocked, savedEnabled, initsLeft,
                   histVars, restVars>>

DisableMock(names) ==
    /\ pc \in {"idle", "inits"}
    /\ pc = "inits" => initsLeft > 0
    /\ names # {}
    /\ SetToggle(DisableMockState(names))
    /\ UNCHANGED <<pc, mocked, savedEnabled, initsLeft, histVars, restVars>>

----------------------------------------------------------------------------
(* callInits *)

\* mutant: the global flag is left as it was while the init routines run
CallInitsSuspend_KeepFlag ==
    [all |-> allMocked, en |-> NilMap, dis |-> disabledMocks]

\* _allMocked = false; _enabledMocks = nil
CallInitsSuspend ==
    [all |-> FALSE, en |-> NilMap, dis |-> disabledMocks]

\* mocked := _allMocked; enabledMocks := _enabledMocks; then the suspension
CallInitsBegin(n) ==
    /\ pc = "idle"
    /\ mocked' = allMocked
    /\ savedEnabled' = enabledMocks
    /\ SetToggle(CallInitsSuspend)
    /\ initsLeft' = n
    /\ pc' = "inits"
    /\ pre' = Toggle
    /\ initMockAll' = FALSE
    /\ UNCHANGED <<wasEnabled, call, restVars>>

\* f() returns and the loop goes on to the next init routine
InitReturn ==
    /\ pc = "inits"
    /\ initsLeft > 0
    /\ initsLeft' = initsLeft - 1
    /\ UNCHANGED <<allMocked, enabledMocks, disabledMocks, pc, mocked, savedEnabled,
                   histVars, restVars>>

\* _allMocked = mocked; _enabledMocks = enabledMocks
CallInitsRestore ==
    [all |-> mocked, en |-> savedEnabled, dis |-> disabledMocks]

CallInitsEnd ==
    /\ pc = "inits"
    /\ initsLeft = 0
    /\ SetToggle(CallInitsRestore)
    /\ pc' = "idle"
    /\ UNCHANGED <<mocked, savedEnabled, initsLeft, histVars, restVars>>

----------------------------------------------------------------------------
(* A dispatcher call, from test code or from an init routine *)

Dispatch(name, realDisabled) ==
    /\ pc \in {"idle", "inits"}
    /\ pc = "inits" => initsLeft > 0
    /\ call' = [name |-> name, realDisabled |-> realDisabled,
                route |-> Route(name, realDisabled),
                from |-> IF pc = "idle" THEN "idle"
                         ELSE IF initMockAll THEN "initAfterMockAll" ELSE "init"]
    /\ UNCHANGED <<toggleVars, pre, initMockAll, wasEnabled, restVars>>

----------------------------------------------------------------------------
(* The generated package: test code and init routines drive it *)

\* a Go map with no entry
EmptyGoMap == [x \in {} |-> x]

\* MakePkg was not called
InitGenIdle ==
    /\ gPc = "idle"
    /\ cfg = [callInits |-> TRUE, mockPrototypes |-> FALSE]
    /\ todo = {}
    /\ cur = ""
    /\ buildTags = FALSE
    /\ nRead = 0
    /\ out = EmptyGoMap
    /\ inits = <<>>
    /\ initCount = 0
    /\ recorders = EmptyGoMap
    /\ types = EmptyGoMap
    /\ extFunctions = <<>>
    /\ imports = EmptyGoMap
    /\ importSet = {}
    /\ scaffold = <<>>
    /\ srcRead = EmptyGoMap
    /\ run = 1
    /\ firstRun = <<>>

\* markImport was not called
InitMarkIdle ==
    /\ mkLabel = <<>>
    /\ mkMark = <<>>
    /\ mkOut = <<>>
    /\ mkGot = <<>>
    /\ mkPc = "idle"

\* no error value was made
InitErrIdle ==
    /\ erVal = [isNil |-> TRUE]
    /\ erLabels = <<>>
    /\ erRoot = [isNil |-> TRUE]
    /\ erRead = <<>>
    /\ erPc = "idle"

\* no function record
NoFunc == [none |-> TRUE]

\* scopeName and AddScope were not called
InitScopeIdle ==
    /\ scName = <<>>
    /\ scScope = <<>>
    /\ scOnce = <<>>
    /\ scTwice = <<>>
    /\ scPc = "idle"
    /\ scFi = NoFunc
    /\ scCopy = NoFunc

\* the generated package when it is loaded, no generator running
InitPkg ==
    /\ allMocked = FALSE
    /\ enabledMocks = EmptyMap
    /\ disabledMocks = {}
    /\ pc = "idle"
    /\ mocked = FALSE
    /\ savedEnabled = EmptyMap
    /\ initsLeft = 0
    /\ pre = DefaultToggle
    /\ initMockAll = FALSE
    /\ wasEnabled = {}
    /\ call = NoCall

    /\ disp = NoDisp
    /\ fs = [p \in Paths |-> "x"]
    /\ keys = <<>>
    /\ keyCalcs = <<>>
    /\ keyRets = <<>>
    /\ newRes = NoNew
    /\ InitGenIdle

Init ==
    /\ InitPkg
    /\ InitScopeIdle
    /\ InitMarkIdle
    /\ InitErrIdle

Next ==
    \/ \E b \in BOOLEAN : MockAll(b)
    \/ \E ns \in SUBSET Names : EnableMock(ns)
    \/ \E ns \in SUBSET Names : EnableMockPanic(ns)
    \/ \E ns \in SUBSET Names : DisableMock(ns)
    \/ \E n \in 0..MaxInits : CallInitsBegin(n)
    \/ InitReturn
    \/ CallInitsEnd
    \/ \E name \in Names, rd \in BOOLEAN : Dispatch(name, rd)

vars == <<toggleVars, histVars, disp, cacheVars, scopeVars, moreVars>>

Spec == Init /\ [][Next]_vars

----------------------------------------------------------------------------
(* Properties of the toggle state and of the routing *)

\* the routing test of the generated dispatcher, as the documentation words it
DocForwards(name) ==
    \/ ~allMocked /\ name \notin enabledMocks.keys
    \/ name \in disabledMocks

\* C1: every dispatcher call of a symbol whose real form is not disabled goes
\* to the real implementation if and only if (the global flag is off and the
\* symbol is not enabled) or the symbol is disabled, and to the controller in
\* every other toggle state
C1_Routing ==
    [][\A name \in Names :
          Dispatch(name, FALSE) =>
              /\ call'.route \in {"real", "ctrl"}
              /\ call'.route = "real" <=> DocForwards(name)]_vars

\* C1 witness: a disabled name was forwarded to the real implementation
\* while everything is mocked
C1_Witness ==
    /\ pc = "idle"
    /\ allMocked
    /\ call.name \in disabledMocks
    /\ ~call.realDisabled
    /\ call.route = "real"

\* C2: the enabled set and the disabled set have no name in common
C2_Disjoint == enabledMocks.keys \cap disabledMocks = {}

C4_InitsRunReal ==
    (call.from \in {"init", "initAfterMockAll"} /\ ~call.realDisabled) =>
        call.route = "real"

\* C4 amended: every dispatcher call an init routine makes before any init
\* routine of the same callInits run has called MockAll, of a symbol whose
\* real form is not disabled, is forwarded to the real implementation
C4_InitsRunRealUntilMockAll ==
    (call.from = "init" /\ ~call.realDisabled) => call.route = "real"

\* C4 witness: callInits was called with the global flag on and the name
\* enabled, and a call an init routine made of it went to the real form
C4_Witness ==
    /\ pc = "inits"
    /\ mocked
    /\ call.name \in savedEnabled.keys
    /\ call.from = "init"
    /\ ~call.realDisabled
    /\ call.route = "real"

\* C5: when callInits returns, the global flag, the enabled set and the
\* disabled set are the ones that held when it was called
C5_Restored ==
    [][(pc = "inits" /\ pc' = "idle") => Toggle' = pre]_vars

----------------------------------------------------------------------------
(* The generated dispatcher in full (funcInfo.writeMock): parameters,        *)
(* arguments passed on, results                                              *)

\* the most arguments a call passes for a variadic parameter
MaxVariadic == 2

\* a Go value: its dynamic type and its content (v = 0 is the zero content)
Val(dyn, v) == [kind |-> "val", dyn |-> dyn, v |-> v]

\* a slice value, as the variadic parameter holds
Slice(elems) == [kind |-> "slice", elems |-> elems]

\* the nil interface value
NilVal == Val("nil", 0)

\* a field of a parameter or result list: field{names, expr}
Field(names, expr) == [names |-> names, expr |-> expr]

\* func Sum(...int) int
FnSum ==
    [name |-> "Sum", varidic |-> TRUE, realDisabled |-> FALSE,
     recv |-> [name |-> "", expr |-> ""],
     params |-> <<Field(<<>>, "...int")>>,
     results |-> <<Field(<<>>, "int")>>]

\* func (t *T) Log(f string, lvl int, vs ...int) error
FnLog ==
    [name |-> "Log", varidic |-> TRUE, realDisabled |-> FALSE,
     recv |-> [name |-> "t", expr |-> "*T"],
     params |-> <<Field(<<"f">>, "string"), Field(<<"lvl">>, "int"),
                  Field(<<"vs">>, "...int")>>,
     results |-> <<Field(<<>>, "error")>>]

\* func (t T) Div(a, b int) (q, r int, err error)
FnDiv ==
    [name |-> "Div", varidic |-> FALSE, realDisabled |-> FALSE,
     recv |-> [name |-> "t", expr |-> "T"],
     params |-> <<Field(<<"a", "b">>, "int")>>,
     results |-> <<Field(<<"q", "r">>, "int"), Field(<<"err">>, "error")>>]

\* the function records mockGen.file builds for the exported declarations
Funcs == {FnSum, FnLog, FnDiv}

\* fi.IsMethod()
IsMethod(fi) == fi.recv.expr # ""

\* recv.expr[1:] when recv.expr[0] == '*', for the receiver types of Funcs
BaseType(expr) == IF expr = "*T" THEN "T" ELSE expr

\* the name the toggle sets know the symbol by: "Name" or "Type.Name"
ScopedName(fi) ==
    IF IsMethod(fi) THEN BaseType(fi.recv.expr) \o "." \o fi.name ELSE fi.name

\* the positions a field stands for: one per name, one if it has no name
Width(f) == IF Len(f.names) = 0 THEN 1 ELSE Len(f.names)

RECURSIVE writeParams(_)
\* the number of parameters p0, p1, ... the dispatcher declares
writeParams(params) ==
    IF params = <<>> THEN 0
    ELSE Width(Head(params)) + writeParams(Tail(params))

RECURSIVE retTypes(_)
\* the type of every result position, in declared order
retTypes(results) ==
    IF results = <<>> THEN <<>>
    ELSE [i \in 1..Width(Head(results)) |-> Head(results).expr]
         \o retTypes(Tail(results))

\* mutant: the variadic slice is passed to the controller as one argument
CtrlArgs_Nested(fi, p) ==
    IF fi.varidic THEN Append(SubSeq(p, 1, Len(p) - 1), p[Len(p)]) ELSE p

\* the argument list of _ctrl.Call: for a variadic function
\* args := []interface{}{p0, ...}; for _, v := range pLast { args = append(args, v) }
CtrlArgs(fi, p) ==
    IF fi.varidic THEN SubSeq(p, 1, Len(p) - 1) \o p[Len(p)].elems ELSE p

\* the parameters the real form is entered with: _real_f(p0, ..., pLast...)
RealParams(fi, p) == p

\* a dynamic type implements the interface type "error"
Implements(dyn, t) == t = "error" /\ dyn = "*MyErr"

\* x.(t) succeeds
HasType(x, t) ==
    IF t = "error" THEN Implements(x.dyn, t) ELSE x.dyn = t

\* the zero value of a type
Zero(t) == IF t = "error" THEN NilVal ELSE Val(t, 0)

\* mutant: the type assertion without ", _" panics on a wrong type
Coerce_Strict(x, t) == IF HasType(x, t) THEN x ELSE Val("panic", 0)

\* retI, _ := ret[I].(t)
Coerce(x, t) == IF HasType(x, t) THEN x ELSE Zero(t)

\* the results of the dispatcher in mocked mode
MockResults(fi, ret) ==
    [i \in 1..Len(retTypes(fi.results)) |-> Coerce(ret[i], retTypes(fi.results)[i])]

RECURSIVE SumVals(_)
\* the sum of the contents of a list of values, slices included
SumVals(xs) ==
    IF xs = <<>> THEN 0
    ELSE (IF Head(xs).kind = "slice" THEN SumVals(Head(xs).elems) ELSE Head(xs).v)
         + SumVals(Tail(xs))

\* the original body, kept as _real_f: some function of its parameters
RealImpl(fi, p) ==
    [i \in 1..Len(retTypes(fi.results)) |->
        IF retTypes(fi.results)[i] = "error" THEN NilVal
        ELSE Val(retTypes(fi.results)[i], SumVals(p) + i)]

\* the values a caller passes for a parameter of a type
ArgVals(t) ==
    IF t = "int" THEN {Val("int", 1), Val("int", 2)}
    ELSE IF t = "string" THEN {Val("string", 1)}
    ELSE {}

\* the lists of at most n values of a set
RECURSIVE SeqsUpTo(_, _)
SeqsUpTo(S, n) ==
    IF n = 0 THEN {<<>>}
    ELSE SeqsUpTo(S, n - 1) \cup {Append(q, x) : q \in SeqsUpTo(S, n - 1), x \in S}

\* the types of the fixed parameters, position by position
FixedTypes(fi) ==
    IF fi.varidic
    THEN SubSeq(retTypes(fi.params), 1, writeParams(fi.params) - 1)
    ELSE retTypes(fi.params)

\* the fixed arguments of a call
FixedArgs(fi) ==
    {q \in SeqsUpTo(ArgVals("int") \cup ArgVals("string"), Len(FixedTypes(fi))) :
        /\ Len(q) = Len(FixedTypes(fi))
        /\ \A i \in 1..Len(q) : q[i] \in ArgVals(FixedTypes(fi)[i])}

\* the variadic arguments of a call (none for a function that is not variadic)
VariadicArgs(fi) ==
    IF fi.varidic THEN SeqsUpTo(ArgVals("int"), MaxVariadic) ELSE {<<>>}

\* the values a controller can hand back for one result
CtrlVals == {Val("int", 7), Val("*MyErr", 1), NilVal}

\* the lists a controller returns: one value per result of the method
CtrlRets(fi) ==
    {q \in SeqsUpTo(CtrlVals, Len(retTypes(fi.results))) :
        Len(q) = Len(retTypes(fi.results))}

\* the parameters of the dispatcher for a call: the variadic arguments
\* arrive as one slice in the last parameter
Bind(fi, fixed, variadic) ==
    IF fi.varidic THEN Append(fixed, Slice(variadic)) ELSE fixed

\* one call of the dispatcher of fi
DispatchCall(fi, fixed, variadic, ret) ==
    LET p == Bind(fi, fixed, variadic)
        route == Route(ScopedName(fi), fi.realDisabled)
    IN /\ Len(p) = writeParams(fi.params)
       /\ disp' = IF route = "real"
                  THEN [fn |-> fi.name, route |-> "real",
                        fixed |-> fixed, variadic |-> variadic,
                        realParams |-> RealParams(fi, p), ctrlArgs |-> <<>>,
                        ctrlRet |-> <<>>, results |-> RealImpl(fi, RealParams(fi, p))]
                  ELSE [fn |-> fi.name, route |-> "ctrl",
                        fixed |-> fixed, variadic |-> variadic,
                        realParams |-> <<>>, ctrlArgs |-> CtrlArgs(fi, p),
                        ctrlRet |-> ret, results |-> MockResults(fi, ret)]
       /\ UNCHANGED <<toggleVars, histVars, moreVars, cacheVars, scopeVars>>

\* the names of Funcs as the toggle sets know them
FuncNames == {ScopedName(fi) : fi \in Funcs}

CallNext ==
    \/ \E b \in BOOLEAN : MockAll(b)
    \/ \E n \in FuncNames : EnableMockOnly({n})
    \/ \E n \in FuncNames : DisableMock({n})
    \/ \E fi \in Funcs : \E fixed \in FixedArgs(fi), variadic \in VariadicArgs(fi),
                             ret \in CtrlRets(fi) :
           DispatchCall(fi, fixed, variadic, ret)

SpecCall == Init /\ [][CallNext]_vars

\* the function record of the latest dispatcher call
DispFn == CHOOSE fi \in Funcs : fi.name = disp.fn

\* C6: a variadic dispatcher in mocked mode passes to the controller the flat
\* list of its k fixed arguments followed by its n variadic arguments, of
\* length k+n and with no list among its elements; in real-forwarding mode the
\* real form gets the fixed arguments and then the variadic ones, expanded
C6_VariadicFlat ==
    (disp.route # "none" /\ DispFn.varidic) =>
        /\ disp.route = "ctrl" =>
              /\ Len(disp.ctrlArgs) = Len(disp.fixed) + Len(disp.variadic)
              /\ \A i \in 1..Len(disp.ctrlArgs) : disp.ctrlArgs[i].kind = "val"
              /\ disp.ctrlArgs = disp.fixed \o disp.variadic
        /\ disp.route = "real" =>
              /\ Len(disp.realParams) = Len(disp.fixed) + 1
              /\ SubSeq(disp.realParams, 1, Len(disp.fixed)) = disp.fixed
              /\ disp.realParams[Len(disp.realParams)] = Slice(disp.variadic)

\* C6 witness: a method with 2 fixed parameters and a variadic one was called
\* in mocked mode with 2 variadic arguments
C6_Witness ==
    /\ disp.route = "ctrl"
    /\ disp.fn = "Log"
    /\ Len(disp.fixed) = 2
    /\ Len(disp.variadic) = 2
    /\ Len(disp.ctrlArgs) = 4

RECURSIVE ResultTypeAt(_, _)
\* the declared type of result position i
ResultTypeAt(results, i) ==
    IF i <= Width(Head(results)) THEN Head(results).expr
    ELSE ResultTypeAt(Tail(results), i - Width(Head(results)))

RECURSIVE ResultCount(_)
\* the number of declared result positions
ResultCount(results) ==
    IF results = <<>> THEN 0 ELSE Width(Head(results)) + ResultCount(Tail(results))

\* C7: in mocked mode the dispatcher returns, for each declared result
\* position i, the controller's i-th value when it has the declared type of
\* result i and the zero value of that type when it does not, and a value of
\* the wrong type does not make it fail
C7_CoerceOrZero ==
    disp.route = "ctrl" =>
        /\ Len(disp.results) = ResultCount(DispFn.results)
        /\ \A i \in 1..ResultCount(DispFn.results) :
              LET t == ResultTypeAt(DispFn.results, i)
                  x == disp.ctrlRet[i]
              IN /\ disp.results[i].dyn # "panic"
                 /\ (t = "error" /\ x.dyn = "*MyErr") => disp.results[i] = x
                 /\ (t # "error" /\ x.dyn = t) => disp.results[i] = x
                 /\ (t = "error" /\ x.dyn # "*MyErr") => disp.results[i] = NilVal
                 /\ (t # "error" /\ x.dyn # t) => disp.results[i] = Val(t, 0)

\* C7 witness: a call with three results got one value of the right type and
\* one of the wrong type for its two int results
C7_Witness ==
    /\ disp.route = "ctrl"
    /\ disp.fn = "Div"
    /\ disp.ctrlRet[1] = Val("int", 7)
    /\ disp.results[1] = Val("int", 7)
    /\ disp.ctrlRet[2] = NilVal
    /\ disp.results[2] = Val("int", 0)
    /\ disp.ctrlRet[3] = Val("*MyErr", 1)
    /\ disp.results[3] = Val("*MyErr", 1)

----------------------------------------------------------------------------
(* The content-addressed cache: cache/keys.go *)

\* the most inputs of one key
MaxSrcs == 2

\* the most key instances alive at once
MaxKeys == 2

\* the contents a file can have
Contents == {"x", "y"}

\* the operations keys are made for
Ops == {"install", "gen"}

\* c.self, the scope identifier of the cache
CacheSelf == "withmock"

\* the empty string
EmptyStr == <<>>

\* the nil *CacheFileKey and the nil error
Nil == [isNil |-> TRUE]

\* c.lookupDetails(src): the fingerprint of the content of src, or an error
lookupDetails(src) ==
    IF fs[src] = Missing
    THEN [details |-> EmptyStr, err |-> [isNil |-> FALSE, msg |-> <<"no such file: ", src>>]]
    ELSE [details |-> <<"fp:", fs[src]>>, err |-> Nil]

\* utils.Err{Ctxt, Err}
Err(ctxt, err) == [isNil |-> FALSE, Ctxt |-> ctxt, Err |-> err]

RECURSIVE NewKeyLoop_NoAbort(_, _, _, _, _)
\* mutant: the loop goes on after a failure and the last error, if any, is
\* returned with the key
NewKeyLoop_NoAbort(op, srcs, i, files, looked) ==
    IF i > Len(srcs)
    THEN [key |-> [isNil |-> FALSE, Self |-> CacheSelf, Op |-> op, Files |-> files,
                   hash |-> EmptyStr],
          err |-> Nil, looked |-> looked]
    ELSE LET r == lookupDetails(srcs[i])
             rest == NewKeyLoop_NoAbort(op, srcs, i + 1, Append(files, r.details),
                                        Append(looked, srcs[i]))
         IN IF r.err.isNil \/ ~rest.err.isNil THEN rest
            ELSE [rest EXCEPT !.err = Err(<<"c.getDetails(", srcs[i], ")">>, r.err)]

RECURSIVE NewKeyLoop(_, _, _, _, _)
\* the loop of NewCacheFileKey from input i on, and its return:
\* files[i], err = c.lookupDetails(src); if err != nil { return nil, Err{...} }
NewKeyLoop(op, srcs, i, files, looked) ==
    IF i > Len(srcs)
    THEN [key |-> [isNil |-> FALSE, Self |-> CacheSelf, Op |-> op, Files |-> files,
                   hash |-> EmptyStr],
          err |-> Nil, looked |-> looked]
    ELSE LET r == lookupDetails(srcs[i])
         IN IF ~r.err.isNil
            THEN [key |-> Nil,
                  err |-> Err(<<"c.getDetails(", srcs[i], ")">>, r.err),
                  looked |-> Append(looked, srcs[i])]
            ELSE NewKeyLoop(op, srcs, i + 1, Append(files, r.details),
                            Append(looked, srcs[i]))

\* c.NewCacheFileKey(op, srcs...): the key, the error, the inputs looked up
NewCacheFileKeyResult(op, srcs) == NewKeyLoop(op, srcs, 1, <<>>, <<>>)

\* the lists of inputs a caller passes
SrcLists == SeqsUpTo(Paths, MaxSrcs)

\* a call of NewCacheFileKey, the caller keeping what it returned
NewCacheFileKey(op, srcs) ==
    /\ newRes' = [op |-> op, srcs |-> srcs, fs |-> fs,
                  ret |-> NewCacheFileKeyResult(op, srcs)]
    /\ UNCHANGED <<fs, keys, keyCalcs, keyRets, toggleVars, histVars, moreVars, disp, scopeVars>>

\* the environment writes a file
WriteFile(p, c) ==
    /\ fs[p] # c
    /\ fs' = [fs EXCEPT ![p] = c]
    /\ UNCHANGED <<keys, keyCalcs, keyRets, newRes, toggleVars, histVars, moreVars, disp, scopeVars>>

\* the environment removes a file
RemoveFile(p) ==
    /\ fs[p] # Missing
    /\ fs' = [fs EXCEPT ![p] = Missing]
    /\ UNCHANGED <<keys, keyCalcs, keyRets, newRes, toggleVars, histVars, moreVars, disp, scopeVars>>

KeyNext ==
    \/ \E op \in Ops, srcs \in SrcLists : NewCacheFileKey(op, srcs)
    \/ \E p \in Paths, c \in Contents : WriteFile(p, c)
    \/ \E p \in Paths : RemoveFile(p)

SpecKey == Init /\ [][KeyNext]_vars

\* the first input of a list that did not resolve in a file system, 0 if none
FirstMissing(srcs, files) ==
    IF \E i \in 1..Len(srcs) : files[srcs[i]] = Missing
    THEN CHOOSE i \in 1..Len(srcs) :
            /\ files[srcs[i]] = Missing
            /\ \A j \in 1..(i - 1) : files[srcs[j]] # Missing
    ELSE 0

\* C9: NewCacheFileKey returns a key or an error, never both; when an input
\* fails to resolve it returns no key and an error naming the first such
\* input, having looked up no later input; when every input resolves the key
\* holds the scope identifier, op, and the i-th input's fingerprint at place i
C9_KeyOrError ==
    newRes # NoNew =>
        LET r == newRes.ret
            j == FirstMissing(newRes.srcs, newRes.fs)
        IN /\ r.key.isNil # r.err.isNil
           /\ j > 0 =>
                 /\ r.key.isNil
                 /\ r.err.Ctxt = <<"c.getDetails(", newRes.srcs[j], ")">>
                 /\ r.looked = SubSeq(newRes.srcs, 1, j)
           /\ j = 0 =>
                 /\ r.err.isNil
                 /\ r.key.Self = CacheSelf
                 /\ r.key.Op = newRes.op
                 /\ Len(r.key.Files) = Len(newRes.srcs)
                 /\ \A i \in 1..Len(newRes.srcs) :
                       r.key.Files[i] = <<"fp:", newRes.fs[newRes.srcs[i]]>>

\* C9 witness: the first of two inputs failed to resolve, the second exists,
\* and only the first was looked up
C9_Witness ==
    /\ newRes # NoNew
    /\ Len(newRes.srcs) = 2
    /\ newRes.fs[newRes.srcs[1]] = Missing
    /\ newRes.fs[newRes.srcs[2]] # Missing
    /\ newRes.ret.key.isNil
    /\ newRes.ret.looked = <<newRes.srcs[1]>>

----------------------------------------------------------------------------
(* CacheFileKey.Hash *)

\* a JSON string literal
Quote(str) == <<"\"">> \o str \o <<"\"">>

RECURSIVE JoinComma(_)
\* the elements of a JSON array, comma separated
JoinComma(strs) ==
    IF strs = <<>> THEN <<>>
    ELSE IF Len(strs) = 1 THEN Quote(Head(strs))
    ELSE Quote(Head(strs)) \o <<",">> \o JoinComma(Tail(strs))

\* enc.Encode(k): the exported fields under their tags, in declaration
\* order; the hash field is not exported and is not encoded
Encode(k) ==
    <<"{", "\"self\":">> \o Quote(<<k.Self>>) \o <<",", "\"op\":">> \o Quote(<<k.Op>>)
    \o <<",", "\"files\":", "[">> \o JoinComma(k.Files) \o <<"]", "}", "\n">>

\* NewCacheHash() fed with bytes, then Sum(nil): a digest without collisions
CacheHashSum(bytes) == <<"sum">> \o bytes

\* hex.EncodeToString
HexEncode(d) == <<"hex">> \o d

\* k.calcHash()
calcHash(k) == [k EXCEPT !.hash = HexEncode(CacheHashSum(Encode(k)))]

\* mutant: the digest is computed on every call
HashCall_NoMemo(k) == [key |-> calcHash(k), ran |-> 1]

\* k.Hash(): the key after the call and whether calcHash ran
HashCall(k) ==
    IF k.hash = EmptyStr THEN [key |-> calcHash(k), ran |-> 1]
    ELSE [key |-> k, ran |-> 0]

\* a caller makes a key and keeps it, if NewCacheFileKey gave one
MakeKey(op, srcs) ==
    LET r == NewCacheFileKeyResult(op, srcs)
    IN /\ Len(keys) < MaxKeys
       /\ IF r.err.isNil
          THEN /\ keys' = Append(keys, r.key)
               /\ keyCalcs' = Append(keyCalcs, 0)
               /\ keyRets' = Append(keyRets, {})
          ELSE UNCHANGED <<keys, keyCalcs, keyRets>>
       /\ UNCHANGED <<fs, newRes, toggleVars, histVars, moreVars, disp, scopeVars>>

\* a call of Hash() on the i-th key (a key whose digest was computed twice
\* is not followed further)
Hash(i) ==
    LET h == HashCall(keys[i])
    IN /\ keyCalcs[i] < 2
       /\ keys' = [keys EXCEPT ![i] = h.key]
       /\ keyCalcs' = [keyCalcs EXCEPT ![i] = @ + h.ran]
       /\ keyRets' = [keyRets EXCEPT ![i] = @ \cup {h.key.hash}]
       /\ UNCHANGED <<fs, newRes, toggleVars, histVars, moreVars, disp, scopeVars>>

HashNext ==
    \/ \E op \in Ops, srcs \in SrcLists : MakeKey(op, srcs)
    \/ \E i \in 1..Len(keys) : Hash(i)
    \/ \E p \in Paths, c \in Contents : WriteFile(p, c)
    \/ \E p \in Paths : RemoveFile(p)

SpecHash == Init /\ [][HashNext]_vars

\* the keys Hash() was called on
Hashed == {i \in 1..Len(keys) : keyRets[i] # {}}

\* C8: every call of Hash() on one key returns the same string and the digest
\* is computed on the first call only; keys with equal Self, Op and Files
\* return equal strings; keys with equal Self and Op whose Files differ, in a
\* fingerprint or in their order, return different strings
C8_HashPure ==
    /\ \A i \in 1..Len(keys) :
          /\ keyCalcs[i] <= 1
          /\ Cardinality(keyRets[i]) <= 1
          /\ EmptyStr \notin keyRets[i]
    /\ \A i \in Hashed, j \in Hashed :
          /\ (/\ keys[i].Self = keys[j].Self
              /\ keys[i].Op = keys[j].Op
              /\ keys[i].Files = keys[j].Files) => keyRets[i] = keyRets[j]
          /\ (/\ keys[i].Self = keys[j].Self
              /\ keys[i].Op = keys[j].Op
              /\ keys[i].Files # keys[j].Files) => keyRets[i] \cap keyRets[j] = {}

\* C8 witness: two keys for the same operation hold the same two fingerprints
\* in opposite orders, Hash() was called on both and returned two different
\* strings, and the digest of the first was computed once
C8_Witness ==
    /\ Len(keys) = 2
    /\ Hashed = {1, 2}
    /\ keys[1].Op = keys[2].Op
    /\ Len(keys[1].Files) = 2
    /\ keys[1].Files[1] # keys[1].Files[2]
    /\ keys[2].Files = <<keys[1].Files[2], keys[1].Files[1]>>
    /\ keyRets[1] # keyRets[2]
    /\ keyCalcs[1] = 1

----------------------------------------------------------------------------
(* The scope rewriter: isLocalExpr, isChannel, scopeName.  A string is the   *)
(* sequence of its characters.                                              *)

\* the most wrappers around a base type in the texts given to scopeName
MaxWrap == 2

\* "struct{"
StrStructOpen == <<"s", "t", "r", "u", "c", "t", "{">>

\* "interface{"
StrInterfaceOpen == <<"i", "n", "t", "e", "r", "f", "a", "c", "e", "{">>

\* "chan->"
StrChanArrow == <<"c", "h", "a", "n", "-", ">">>

\* "<-chan"
StrRecvChan == <<"<", "-", "c", "h", "a", "n">>

\* "[]chan pkg.Foo"
StrSliceChanPkgFoo == <<"[", "]", "c", "h", "a", "n", " ", "p", "k", "g", ".", "F", "o", "o">>

\* "[]chan Foo"
StrSliceChanFoo == <<"[", "]", "c", "h", "a", "n", " ", "F", "o", "o">>

\* "[3]Foo"
StrArrayFoo == <<"[", "3", "]", "F", "o", "o">>

\* "...Foo"
StrEllipsisFoo == <<".", ".", ".", "F", "o", "o">>

\* "other.Bar"
StrOtherBar == <<"o", "t", "h", "e", "r", ".", "B", "a", "r">>

\* "struct{}"
StrStruct == <<"s", "t", "r", "u", "c", "t", "{", "}">>

\* "interface{}"
StrInterface == <<"i", "n", "t", "e", "r", "f", "a", "c", "e", "{", "}">>

\* "map[string]Foo"
StrMapFoo == <<"m", "a", "p", "[", "s", "t", "r", "i", "n", "g", "]", "F", "o", "o">>

\* "func(a int) Foo"
StrFuncFoo == <<"f", "u", "n", "c", "(", "a", " ", "i", "n", "t", ")", " ", "F", "o", "o">>

\* "[]"
WrapSlice == <<"[", "]">>

\* "chan "
WrapChan == <<"c", "h", "a", "n", " ">>

\* "<-chan "
WrapRecvChan == <<"<", "-", "c", "h", "a", "n", " ">>

\* "chan<- "
WrapSendChan == <<"c", "h", "a", "n", "<", "-", " ">>

\* "*"
WrapPtr == <<"*">>

\* "pkg"
ScopePkg == <<"p", "k", "g">>

\* "q"
ScopeQ == <<"q">>

\* "T"
StrT == <<"T">>

\* "chan"
StrChan == <<"c", "h", "a", "n">>

\* "int"
StrInt == <<"i", "n", "t">>

\* "error"
StrError == <<"e", "r", "r", "o", "r">>

\* "string"
StrString == <<"s", "t", "r", "i", "n", "g">>

\* "Foo"
StrFoo == <<"F", "o", "o">>

\* "pkg.Foo"
StrPkgFoo == <<"p", "k", "g", ".", "F", "o", "o">>

\* strings.HasPrefix
HasPrefix(str, prefix) ==
    Len(str) >= Len(prefix) /\ SubSeq(str, 1, Len(prefix)) = prefix

\* strings.Contains
Contains(str, sub) ==
    \E i \in 1..(Len(str) - Len(sub) + 1) : SubSeq(str, i, i + Len(sub) - 1) = sub

\* strings.SplitN(str, sep, 2) for a one character sep that str contains
SplitN2(str, sep) ==
    LET i == CHOOSE k \in 1..Len(str) :
                 /\ str[k] = sep
                 /\ \A j \in 1..(k - 1) : str[j] # sep
    IN <<SubSeq(str, 1, i - 1), SubSeq(str, i + 1, Len(str))>>

\* the predeclared types isLocalExpr lists
Builtins ==
    {
     <<"i", "n", "t">>, <<"i", "n", "t", "8">>,
     <<"i", "n", "t", "1", "6">>, <<"i", "n", "t", "3", "2">>,
     <<"i", "n", "t", "6", "4">>, <<"u", "i", "n", "t">>,
     <<"u", "i", "n", "t", "8">>, <<"u", "i", "n", "t", "1", "6">>,
     <<"u", "i", "n", "t", "3", "2">>, <<"u", "i", "n", "t", "6", "4">>,
     <<"r", "u", "n", "e">>, <<"b", "y", "t", "e">>,
     <<"u", "i", "n", "t", "p", "t", "r">>, <<"f", "l", "o", "a", "t", "3", "2">>,
     <<"f", "l", "o", "a", "t", "6", "4">>, <<"s", "t", "r", "i", "n", "g">>,
     <<"b", "o", "o", "l">>, <<"e", "r", "r", "o", "r">>,
     <<"c", "o", "m", "p", "l", "e", "x", "6", "4">>, <<"c", "o", "m", "p", "l", "e", "x", "1", "2", "8">>}

\* mutant: a text with a dot in it still counts as local
isLocalExpr_NoDotCheck(expr) ==
    /\ expr \notin Builtins
    /\ ~HasPrefix(expr, StrStructOpen)
    /\ ~HasPrefix(expr, StrInterfaceOpen)

\* isLocalExpr(expr)
isLocalExpr(expr) ==
    /\ expr \notin Builtins
    /\ ~HasPrefix(expr, StrStructOpen)
    /\ ~HasPrefix(expr, StrInterfaceOpen)
    /\ ~Contains(expr, <<".">>)

\* the directions isChannel knows
ChanWords == {StrChan, StrRecvChan, StrChanArrow}

\* isChannel(expr): <<prefix, subtype>>, both empty for anything else
isChannel(expr) ==
    IF ~Contains(expr, <<" ">>) THEN <<EmptyStr, EmptyStr>>
    ELSE LET parts == SplitN2(expr, " ")
         IN IF parts[1] \in ChanWords THEN parts ELSE <<EmptyStr, EmptyStr>>

RECURSIVE scopeName(_, _)
\* scopeName(name, scope)
scopeName(name, scope) ==
    IF HasPrefix(name, WrapSlice)
    THEN WrapSlice \o scopeName(SubSeq(name, 3, Len(name)), scope)
    ELSE IF isChannel(name)[1] # EmptyStr
    THEN isChannel(name)[1] \o <<" ">> \o scopeName(isChannel(name)[2], scope)
    ELSE IF isLocalExpr(name)
    THEN scope \o <<".">> \o name
    ELSE name

\* the unwrapped texts: local names, predeclared types, qualified names,
\* anonymous types, and texts with brackets, spaces or dots inside
BaseExprs ==
    {StrFoo, StrPkgFoo, StrInt, StrError, StrOtherBar, StrStruct, StrInterface, StrT,
     StrMapFoo, StrFuncFoo, StrString, StrArrayFoo,
     StrEllipsisFoo, StrChan, EmptyStr}

\* the wrappers the serializer writes in front of a type
Wrappers == {WrapSlice, WrapChan, WrapRecvChan, WrapSendChan, WrapPtr}

RECURSIVE WrappedExprs(_)
\* the base texts under at most n wrappers
WrappedExprs(n) ==
    IF n = 0 THEN BaseExprs
    ELSE WrappedExprs(n - 1) \cup {w \o x : w \in Wrappers, x \in WrappedExprs(n - 1)}

\* the type expression texts given to scopeName
TypeExprs == WrappedExprs(MaxWrap)

\* the scopes: package names and import aliases
Scopes == {ScopePkg, ScopeQ}

InitScope ==
    /\ InitPkg
    /\ InitMarkIdle
    /\ InitErrIdle
    /\ scName \in TypeExprs
    /\ scScope \in Scopes
    /\ scOnce = <<>>
    /\ scTwice = <<>>
    /\ scPc = "in"
    /\ scFi = NoFunc
    /\ scCopy = NoFunc

\* the text is rewritten
ScopeOnce ==
    /\ scPc = "in"
    /\ scOnce' = scopeName(scName, scScope)
    /\ scPc' = "once"
    /\ UNCHANGED <<scName, scScope, scTwice, scFi, scCopy, toggleVars, histVars, moreVars, disp, cacheVars>>

\* the rewritten text is rewritten again
ScopeTwice ==
    /\ scPc = "once"
    /\ scTwice' = scopeName(scOnce, scScope)
    /\ scPc' = "twice"
    /\ UNCHANGED <<scName, scScope, scOnce, scFi, scCopy, toggleVars, histVars, moreVars, disp, cacheVars>>

ScopeNext == ScopeOnce \/ ScopeTwice

SpecScope == InitScope /\ [][ScopeNext]_vars

\* C10: scopeName(scopeName(x, s), s) = scopeName(x, s) for every text x and
\* scope s; a qualified name such as "pkg.Foo" comes back unchanged, and
\* scopeName("[]chan Foo", "pkg") is "[]chan pkg.Foo"
C10_Idempotent ==
    /\ scPc = "twice" => scTwice = scOnce
    /\ (scPc \in {"once", "twice"} /\ scName \in {StrPkgFoo, StrOtherBar}) => scOnce = scName
    /\ (scPc \in {"once", "twice"} /\ scName = StrSliceChanFoo /\ scScope = ScopePkg) =>
           scOnce = StrSliceChanPkgFoo

\* C10 witness: "[]chan Foo" was rewritten twice in scope "pkg"
C10_Witness ==
    /\ scPc = "twice"
    /\ scName = StrSliceChanFoo
    /\ scScope = ScopePkg
    /\ scOnce = StrSliceChanPkgFoo
    /\ scTwice = scOnce

\* the text under the wrapper w of name
Unwrap(name, w) == SubSeq(name, Len(w) + 1, Len(name))

\* C11: for every wrapper w the serializer writes ("[]", "*", "chan ",
\* "<-chan ", "chan<- ") and every text X, scopeName(w X, s) is w followed by
\* scopeName(X, s)
C11_WrappersRecursed ==
    scPc \in {"once", "twice"} =>
        \A w \in Wrappers :
            HasPrefix(scName, w) => scOnce = w \o scopeName(Unwrap(scName, w), scScope)

----------------------------------------------------------------------------
(* The generator (MakePkg, mockGen.file, mockGen.pkg): the source is a list *)
(* of declarations per file, the output a list of items per generated file *)

\* the most declarations a package has
MaxDecls == 3

\* "_real_"
StrRealPrefix == <<"_", "r", "e", "a", "l", "_">>

\* "_real_init_"
StrRealInit == <<"_", "r", "e", "a", "l", "_", "i", "n", "i", "t", "_">>

\* "_Rec"
StrRecSuffix == <<"_", "R", "e", "c">>

\* "_package_Rec"
StrPackageRec == <<"_", "p", "a", "c", "k", "a", "g", "e", "_", "R", "e", "c">>

\* "Mock_"
StrMockPrefix == <<"M", "o", "c", "k", "_">>

\* "New"
StrNew == <<"N", "e", "w">>

\* "init"
StrInitName == <<"i", "n", "i", "t">>

\* "EXPECT", the default cfg.ObjEXPECT
StrObjEXPECT == <<"E", "X", "P", "E", "C", "T">>

\* "Add", "add", "Ext", "Get", "Set", "get", "Put", "t", "I", "v"
StrAdd == <<"A", "d", "d">>
StrAddLower == <<"a", "d", "d">>
StrExt == <<"E", "x", "t">>
StrGet == <<"G", "e", "t">>
StrSet == <<"S", "e", "t">>
StrGetLower == <<"g", "e", "t">>
StrPut == <<"P", "u", "t">>
StrTLower == <<"t">>
StrI == <<"I">>
StrV == <<"v">>

\* the upper case letters
UpperCase ==
    {"A", "B", "C", "D", "E", "F", "G", "H", "I", "J", "K", "L", "M",
     "N", "O", "P", "Q", "R", "S", "T", "U", "V", "W", "X", "Y", "Z"}

\* ast.IsExported(name)
IsExported(name) == name # <<>> /\ name[1] \in UpperCase

\* the decimal digits
DigitChars == <<"0", "1", "2", "3", "4", "5", "6", "7", "8", "9">>

RECURSIVE FormatInt(_)
\* fmt's %d of a natural number
FormatInt(n) ==
    IF n < 10 THEN <<DigitChars[n + 1]>>
    ELSE FormatInt(n \div 10) \o <<DigitChars[(n % 10) + 1]>>

\* the nodes of the syntax tree
Ident(name) == [node |-> "Ident", name |-> name]
StarExpr(x) == [node |-> "StarExpr", x |-> x]
BasicLit(value) == [node |-> "BasicLit", value |-> value]
StructType == [node |-> "StructType", fields |-> <<>>]
InterfaceType(methods) == [node |-> "InterfaceType", methods |-> methods]
BadExpr == [node |-> "BadExpr"]

RECURSIVE CanRender(_)
\* exprString(exp) returns: it reaches neither its default case nor the
\* default case of the members of an interface
CanRender(exp) ==
    CASE exp.node \in {"Ident", "BasicLit"} -> TRUE
      [] exp.node = "StarExpr" -> CanRender(exp.x)
      [] exp.node = "StructType" -> \A i \in 1..Len(exp.fields) : CanRender(exp.fields[i])
      [] exp.node = "InterfaceType" ->
             \A i \in 1..Len(exp.methods) : exp.methods[i].node = "Ident"
      [] OTHER -> FALSE

RECURSIVE MemberLines(_)
\* the lines of the embedded members of an interface: tab, name, line feed
MemberLines(methods) ==
    IF methods = <<>> THEN <<>>
    ELSE <<"TAB">> \o Head(methods).name \o <<"LF">> \o MemberLines(Tail(methods))

RECURSIVE exprString(_)
\* exprString(exp), for the expressions it can render
exprString(exp) ==
    CASE exp.node = "Ident" -> exp.name
      [] exp.node = "BasicLit" -> exp.value
      [] exp.node = "StarExpr" -> WrapPtr \o exprString(exp.x)
      [] exp.node = "StructType" -> StrStruct
      [] exp.node = "InterfaceType" ->
             IF exp.methods = <<>> THEN StrInterface
             ELSE StrInterfaceOpen \o <<"LF">> \o MemberLines(exp.methods) \o <<"}">>

\* the declarations of a file
FuncDecl(name, recv, sig, hasBody) ==
    [kind |-> "FuncDecl", name |-> name, recv |-> recv, sig |-> sig, hasBody |-> hasBody]
GenDecl(tok, specs) == [kind |-> "GenDecl", tok |-> tok, specs |-> specs]
ImportSpec(path, name) == [path |-> path, name |-> name]
TypeSpec(name, type) == [name |-> name, type |-> type]
ValueSpec(name, value) == [name |-> name, value |-> value]
BadDecl == [kind |-> "BadDecl"]

\* one piece of generated text: what it is, the name it declares, and the
\* receiver, type or list that goes with it
Item(k, n, r) == [k |-> k, n |-> n, r |-> r]

\* the import path of gomock
GomockPath == "github.com/golang/mock/gomock"

\* the package names the go tool finds: import path -> package name
GoListNames == ("fmt" :> <<"f", "m", "t">>)

\* getPackageName(impPath, ...) returns no error
Resolves(impPath) == impPath \in DOMAIN GoListNames

\* a map with one more entry
MapSet(m, k, v) == (k :> v) @@ m

\* the generator's state as m.file has it when it reaches a declaration
GenState ==
    [pc |-> "file", items |-> <<>>, inits |-> inits, initCount |-> initCount,
     recorders |-> recorders, types |-> types, extFunctions |-> extFunctions,
     imports |-> imports]

RECURSIVE ImportSpecs_Strict(_, _, _)
\* mutant: an unresolved import is an error whatever the build constraints
ImportSpecs_Strict(specs, text, imps) ==
    IF specs = <<>> THEN [ok |-> TRUE, text |-> text, imports |-> imps]
    ELSE LET s == Head(specs)
         IN IF s.path = GomockPath THEN ImportSpecs_Strict(Tail(specs), text, imps)
            ELSE IF s.name # <<>>
            THEN ImportSpecs_Strict(Tail(specs), text \o s.name \o <<" ", s.path, "LF">>,
                                    MapSet(imps, s.name, s.path))
            ELSE IF Resolves(s.path)
            THEN ImportSpecs_Strict(Tail(specs),
                                    text \o GoListNames[s.path] \o <<" ", s.path, "LF">>,
                                    MapSet(imps, GoListNames[s.path], s.path))
            ELSE [ok |-> FALSE, text |-> text, imports |-> imps]

RECURSIVE ImportSpecs(_, _, _)
\* the specs of an import declaration, one after the other: the text written
\* and the names registered, and ok = FALSE where m.file returns the error
ImportSpecs(specs, text, imps) ==
    IF specs = <<>> THEN [ok |-> TRUE, text |-> text, imports |-> imps]
    ELSE LET s == Head(specs)
         IN IF s.path = GomockPath THEN ImportSpecs(Tail(specs), text, imps)
            ELSE IF s.name # <<>>
            THEN ImportSpecs(Tail(specs), text \o s.name \o <<" ", s.path, "LF">>,
                             MapSet(imps, s.name, s.path))
            ELSE IF Resolves(s.path)
            THEN ImportSpecs(Tail(specs),
                             text \o GoListNames[s.path] \o <<" ", s.path, "LF">>,
                             MapSet(imps, GoListNames[s.path], s.path))
            ELSE IF ~buildTags
            THEN [ok |-> FALSE, text |-> text, imports |-> imps]
            ELSE ImportSpecs(Tail(specs), text \o <<s.path, "LF">>, imps)

\* case token.IMPORT
ImportRes(d) ==
    LET r == ImportSpecs(d.specs, <<>>, imports)
    IN IF ~r.ok
       THEN [GenState EXCEPT !.pc = "failed",
                             !.items = <<Item("partial", <<>>, <<"import">> \o r.text)>>,
                             !.imports = r.imports]
       ELSE IF Len(d.specs) = 1 /\ d.specs[1].path = GomockPath THEN GenState
       ELSE [GenState EXCEPT !.items = <<Item("import", <<>>, r.text)>>,
                             !.imports = r.imports]

RECURSIVE TypeSpecs(_, _, _)
\* the specs of a type declaration, one after the other
TypeSpecs(specs, text, tys) ==
    IF specs = <<>> THEN [ok |-> TRUE, text |-> text, types |-> tys]
    ELSE LET t == Head(specs)
         IN IF ~CanRender(t.type) THEN [ok |-> FALSE, text |-> text, types |-> tys]
            ELSE TypeSpecs(Tail(specs),
                           text \o t.name \o <<" ">> \o exprString(t.type) \o <<"LF">>,
                           MapSet(tys, t.name, t.type))

\* case token.TYPE: a lone spec is rendered before anything is written, a
\* group after its opening line
TypeRes(d) ==
    LET r == TypeSpecs(d.specs, <<>>, types)
    IN IF r.ok
       THEN [GenState EXCEPT !.items = <<Item("type", <<>>, r.text)>>, !.types = r.types]
       ELSE IF Len(d.specs) = 1 THEN [GenState EXCEPT !.pc = "panicked"]
       ELSE [GenState EXCEPT !.pc = "panicked",
                             !.items = <<Item("partial", <<>>, <<"type (">> \o r.text)>>,
                             !.types = r.types]

RECURSIVE ValueSpecs(_, _)
\* the specs of a var or const declaration: the names are written before
\* the value is rendered
ValueSpecs(specs, text) ==
    IF specs = <<>> THEN [ok |-> TRUE, text |-> text]
    ELSE LET v == Head(specs)
         IN IF ~CanRender(v.value)
            THEN [ok |-> FALSE, text |-> text \o <<"TAB">> \o v.name]
            ELSE ValueSpecs(Tail(specs),
                            text \o <<"TAB">> \o v.name \o <<" ", "=", " ">>
                                 \o exprString(v.value) \o <<"LF">>)

\* case token.VAR, case token.CONST
ValueRes(d) ==
    LET r == ValueSpecs(d.specs, <<>>)
    IN IF r.ok THEN [GenState EXCEPT !.items = <<Item("value", <<>>, <<d.tok>> \o r.text)>>]
       ELSE [GenState EXCEPT !.pc = "panicked",
                             !.items = <<Item("partial", <<>>, <<d.tok>> \o r.text)>>]

\* the default case of the tokens: a line of text in the generated file
UnknownTokRes(d) ==
    [GenState EXCEPT !.items = <<Item("junk", <<>>, <<"--- unknown GenDecl Token">>)>>]

\* the default case of the declarations: a line of text in the generated file
UnknownDeclRes(d) ==
    [GenState EXCEPT !.items = <<Item("junk", <<>>, <<"--- Unknown Decl Type">>)>>]

\* the name writeReal and writeStub give the function
RealName(name) == IF IsExported(name) THEN StrRealPrefix \o name ELSE name

\* the recorder of a function declaration
RecorderOf(d) ==
    IF d.recv = <<>> THEN StrPackageRec
    ELSE IF d.recv[1].node = "StarExpr"
    THEN <<"_">> \o exprString(d.recv[1].x) \o StrRecSuffix
    ELSE <<"_">> \o exprString(d.recv[1]) \o StrRecSuffix

\* mutant: the counter of the renamed inits is never advanced
FuncRes_NoCount(d) ==
    LET t == IF d.recv = <<>> THEN <<>> ELSE exprString(d.recv[1])
        recs == IF d.recv = <<>> THEN recorders ELSE MapSet(recorders, t, RecorderOf(d))
        isInit == d.name = StrInitName /\ t = <<>>
        initName == StrRealInit \o FormatInt(initCount)
        real == IF isInit THEN <<Item("real", RealName(initName), t)>>
                ELSE IF ~d.hasBody /\ cfg.mockPrototypes
                THEN <<Item("stub", RealName(d.name), t)>>
                ELSE <<Item("real", RealName(d.name), t)>>
        mock == IF IsExported(d.name)
                THEN <<Item("mock", d.name, t), Item("recorder", d.name, RecorderOf(d))>>
                ELSE <<>>
    IN IF \E i \in 1..Len(d.sig) : ~CanRender(d.sig[i])
       THEN [GenState EXCEPT !.pc = "panicked", !.recorders = recs]
       ELSE [GenState EXCEPT
                !.items = real \o mock,
                !.inits = IF isInit /\ cfg.callInits THEN Append(inits, initName) ELSE inits,
                !.recorders = recs,
                !.extFunctions = IF IsExported(d.name) /\ ~d.hasBody
                                 THEN Append(extFunctions, d.name) ELSE extFunctions]

\* case *ast.FuncDecl
FuncRes(d) ==
    LET t == IF d.recv = <<>> THEN <<>> ELSE exprString(d.recv[1])
        recs == IF d.recv = <<>> THEN recorders ELSE MapSet(recorders, t, RecorderOf(d))
        isInit == d.name = StrInitName /\ t = <<>>
        initName == StrRealInit \o FormatInt(initCount)
        real == IF isInit THEN <<Item("real", RealName(initName), t)>>
                ELSE IF ~d.hasBody /\ cfg.mockPrototypes
                THEN <<Item("stub", RealName(d.name), t)>>
                ELSE <<Item("real", RealName(d.name), t)>>
        mock == IF IsExported(d.name)
                THEN <<Item("mock", d.name, t), Item("recorder", d.name, RecorderOf(d))>>
                ELSE <<>>
    IN IF \E i \in 1..Len(d.sig) : ~CanRender(d.sig[i])
       THEN [GenState EXCEPT !.pc = "panicked", !.recorders = recs]
       ELSE [GenState EXCEPT
                !.items = real \o mock,
                !.inits = IF isInit /\ cfg.callInits THEN Append(inits, initName) ELSE inits,
                !.initCount = IF isInit THEN initCount + 1 ELSE initCount,
                !.recorders = recs,
                !.extFunctions = IF IsExported(d.name) /\ ~d.hasBody
                                 THEN Append(extFunctions, d.name) ELSE extFunctions]

\* the switch of m.file's loop over the declarations
DeclRes(d) ==
    CASE d.kind = "FuncDecl" -> FuncRes(d)
      [] d.kind = "GenDecl" /\ d.tok = "IMPORT" -> ImportRes(d)
      [] d.kind = "GenDecl" /\ d.tok = "TYPE" -> TypeRes(d)
      [] d.kind = "GenDecl" /\ d.tok \in {"VAR", "CONST"} -> ValueRes(d)
      [] d.kind = "GenDecl" /\ d.tok \notin {"IMPORT", "TYPE", "VAR", "CONST"} -> UnknownTokRes(d)
      [] OTHER -> UnknownDeclRes(d)

RECURSIVE JoinNames(_)
\* strings.Join(names, ", ")
JoinNames(names) ==
    IF names = <<>> THEN <<>>
    ELSE IF Len(names) = 1 THEN names[1]
    ELSE names[1] \o <<",", " ">> \o JoinNames(Tail(names))

\* what m.pkg writes before the recorders
ScaffoldHead ==
    <<Item("package", <<>>, <<>>), Item("toggle", <<>>, <<>>), Item("callInits", <<>>, <<>>),
      Item("MOCK", <<>>, <<>>), Item("control", <<>>, <<>>),
      Item("EXPECT", <<>>, StrPackageRec)>>

\* mutant: the pointer form is written even when the value form is there
RecorderBlock_NoSkip(base, rec) ==
    LET star == base[1] = "*"
        name == IF star THEN Tail(base) ELSE base
        mock == StrMockPrefix \o name
        isInterface == name \in DOMAIN types /\ types[name].node = "InterfaceType"
    IN (IF ~isInterface /\ ~IsExported(name)
        THEN <<Item("mocktype", mock, name),
               Item("ctor", StrNew \o name, IF star THEN WrapPtr \o mock ELSE mock)>>
        ELSE <<>>)
       \o <<Item("rectype", rec, base), Item("accessor", StrObjEXPECT, base)>>

\* one turn of m.pkg's loop over m.recorders
RecorderBlock(base, rec) ==
    IF base[1] = "*" /\ Tail(base) \in DOMAIN recorders THEN <<>>
    ELSE LET star == base[1] = "*"
             name == IF star THEN Tail(base) ELSE base
             mock == StrMockPrefix \o name
             isInterface == name \in DOMAIN types /\ types[name].node = "InterfaceType"
         IN (IF ~isInterface /\ ~IsExported(name)
             THEN <<Item("mocktype", mock, name),
                    Item("ctor", StrNew \o name, IF star THEN WrapPtr \o mock ELSE mock)>>
             ELSE <<>>)
            \o <<Item("rectype", rec, base), Item("accessor", StrObjEXPECT, base)>>

RECURSIVE RecorderBlocks(_)
\* the turns of the loop, in the order the map is ranged over
RecorderBlocks(order) ==
    IF order = <<>> THEN <<>>
    ELSE RecorderBlock(Head(order), recorders[Head(order)]) \o RecorderBlocks(Tail(order))

\* the orders a range over a Go map with the key set S can take
RangeOrders(S) ==
    {q \in [1..Cardinality(S) -> S] : \A i, j \in 1..Cardinality(S) : q[i] = q[j] => i = j}

\* the second run reads the source the first run read
SameTags(f, tags) == run = 2 => tags = firstRun.src[f].tags

\* the next declaration of the current file is d
NextDeclIs(d) ==
    IF run = 1 THEN nRead < MaxDecls
    ELSE /\ Len(srcRead[cur].decls) < Len(firstRun.src[cur].decls)
         /\ firstRun.src[cur].decls[Len(srcRead[cur].decls) + 1] = d

\* the current file has no more declarations
NoMoreDecls ==
    run = 2 => Len(srcRead[cur].decls) = Len(firstRun.src[cur].decls)

\* MakePkg up to its loop over the files: a new mockGen
MakePkgBegin(c) ==
    /\ gPc = "idle"
    /\ gPc' = "between"
    /\ cfg' = c
    /\ todo' = Paths
    /\ UNCHANGED <<cur, buildTags, nRead, out, inits, initCount, recorders, types,
                   extFunctions, imports, importSet, scaffold, srcRead, run, firstRun>>
    /\ UNCHANGED <<toggleVars, histVars, disp, cacheVars, scopeVars, markVars, errVars>>

\* the range over pkg.Files reaches f: os.Create, and m.file up to its loop
FileBegin(f, tags) ==
    /\ gPc = "between"
    /\ f \in todo
    /\ SameTags(f, tags)
    /\ gPc' = "file"
    /\ todo' = todo \ {f}
    /\ cur' = f
    /\ buildTags' = tags
    /\ imports' = EmptyGoMap
    /\ inits' = <<>>
    /\ out' = MapSet(out, f, (IF tags THEN <<Item("tags", <<>>, <<>>)>> ELSE <<>>)
                             \o <<Item("package", <<>>, <<>>)>>)
    /\ srcRead' = MapSet(srcRead, f, [tags |-> tags, decls |-> <<>>])
    /\ UNCHANGED <<cfg, nRead, initCount, recorders, types, extFunctions, importSet,
                   scaffold, run, firstRun>>
    /\ UNCHANGED <<toggleVars, histVars, disp, cacheVars, scopeVars, markVars, errVars>>

\* one turn of m.file's loop: the declaration d
FileDecl(d) ==
    /\ gPc = "file"
    /\ NextDeclIs(d)
    /\ LET res == DeclRes(d)
       IN /\ gPc' = res.pc
          /\ out' = [out EXCEPT ![cur] = @ \o res.items]
          /\ inits' = res.inits
          /\ initCount' = res.initCount
          /\ recorders' = res.recorders
          /\ types' = res.types
          /\ extFunctions' = res.extFunctions
          /\ imports' = res.imports
    /\ nRead' = nRead + 1
    /\ srcRead' = [srcRead EXCEPT ![cur].decls = Append(@, d)]
    /\ UNCHANGED <<cfg, todo, cur, buildTags, importSet, scaffold, run, firstRun>>
    /\ UNCHANGED <<toggleVars, histVars, disp, cacheVars, scopeVars, markVars, errVars>>

\* the end of m.file, and MakePkg taking its imports
FileEnd ==
    /\ gPc = "file"
    /\ NoMoreDecls
    /\ gPc' = "between"
    /\ out' = [out EXCEPT ![cur] = @ \o <<Item("gomock", <<>>, <<>>),
                                           Item("init", StrInitName, JoinNames(inits))>>]
    /\ importSet' = importSet \cup {GomockPath} \cup {imports[n] : n \in DOMAIN imports}
    /\ UNCHANGED <<cfg, todo, cur, buildTags, nRead, inits, initCount, recorders, types,
                   extFunctions, imports, scaffold, srcRead, run, firstRun>>
    /\ UNCHANGED <<toggleVars, histVars, disp, cacheVars, scopeVars, markVars, errVars>>

\* m.pkg, after the last file: the scaffold file
Pkg(order) ==
    /\ gPc = "between"
    /\ todo = {}
    /\ order \in RangeOrders(DOMAIN recorders)
    /\ gPc' = "done"
    /\ scaffold' = ScaffoldHead \o RecorderBlocks(order)
    /\ UNCHANGED <<cfg, todo, cur, buildTags, nRead, out, inits, initCount, recorders,
                   types, extFunctions, imports, importSet, srcRead, run, firstRun>>
    /\ UNCHANGED <<toggleVars, histVars, disp, cacheVars, scopeVars, markVars, errVars>>

\* the configurations MakePkg is called with
Cfgs == [callInits : BOOLEAN, mockPrototypes : BOOLEAN]

\* the configuration of the defaults: inits called, no stubs
DefaultCfg == [callInits |-> TRUE, mockPrototypes |-> FALSE]

\* func Add(int), func add(int), func init(), func Ext() without a body
FnDeclAdd == FuncDecl(StrAdd, <<>>, <<Ident(StrInt)>>, TRUE)
FnDeclAddLower == FuncDecl(StrAddLower, <<>>, <<Ident(StrInt)>>, TRUE)
FnDeclInit == FuncDecl(StrInitName, <<>>, <<>>, TRUE)
FnDeclExt == FuncDecl(StrExt, <<>>, <<>>, FALSE)

\* func (x T) Get(), func (x *T) Set(), func (x t) get(), func (x *t) Put()
FnDeclGet == FuncDecl(StrGet, <<Ident(StrT)>>, <<>>, TRUE)
FnDeclSet == FuncDecl(StrSet, <<StarExpr(Ident(StrT))>>, <<>>, TRUE)
FnDeclGetLower == FuncDecl(StrGetLower, <<Ident(StrTLower)>>, <<>>, TRUE)
FnDeclPut == FuncDecl(StrPut, <<StarExpr(Ident(StrTLower))>>, <<>>, TRUE)

\* func Add(x) with a parameter type exprString has no case for
FnDeclBadSig == FuncDecl(StrAdd, <<>>, <<BadExpr>>, TRUE)

\* type T struct{}, type t struct{}, type I interface{}
TypeDeclT == GenDecl("TYPE", <<TypeSpec(StrT, StructType)>>)
TypeDeclTLower == GenDecl("TYPE", <<TypeSpec(StrTLower, StructType)>>)
TypeDeclI == GenDecl("TYPE", <<TypeSpec(StrI, InterfaceType(<<>>))>>)

\* type T with a type exprString has no case for; an interface with a
\* member that is no method, no name and no selector; a group of two types
\* the second of which cannot be rendered
TypeDeclBad == GenDecl("TYPE", <<TypeSpec(StrT, BadExpr)>>)
TypeDeclBadMember == GenDecl("TYPE", <<TypeSpec(StrI, InterfaceType(<<StructType>>))>>)
TypeDeclGroupBad == GenDecl("TYPE", <<TypeSpec(StrT, StructType), TypeSpec(StrI, BadExpr)>>)

\* var v = 1, and var v with a value exprString has no case for
VarDeclV == GenDecl("VAR", <<ValueSpec(StrV, BasicLit(<<"1">>))>>)
VarDeclBad == GenDecl("VAR", <<ValueSpec(StrV, BadExpr)>>)

\* import "fmt"; import "gone", which the go tool does not find; the two in
\* one group
ImportDeclFmt == GenDecl("IMPORT", <<ImportSpec("fmt", <<>>)>>)
ImportDeclGone == GenDecl("IMPORT", <<ImportSpec("gone", <<>>)>>)
ImportDeclGroup == GenDecl("IMPORT", <<ImportSpec("fmt", <<>>), ImportSpec("gone", <<>>)>>)

\* a general declaration with a token m.file has no case for
UnknownTokDecl == GenDecl("ILLEGAL", <<>>)

\* the declarations of the packages that generate to the end
GenDecls ==
    {FnDeclAdd, FnDeclAddLower, FnDeclInit, FnDeclExt, FnDeclGet, FnDeclSet,
     FnDeclGetLower, FnDeclPut, TypeDeclTLower, TypeDeclI}

\* the declarations of the packages with unresolved imports and unsupported
\* constructs
AbortDecls ==
    {FnDeclAdd, FnDeclBadSig, TypeDeclT, TypeDeclBad, TypeDeclBadMember, TypeDeclGroupBad,
     VarDeclV, VarDeclBad, ImportDeclFmt, ImportDeclGone, ImportDeclGroup,
     UnknownTokDecl, BadDecl}

\* MakePkg on a package whose files carry no build constraint
GenNext ==
    \/ \E c \in Cfgs : MakePkgBegin(c)
    \/ \E f \in Paths : FileBegin(f, FALSE)
    \/ \E d \in GenDecls : FileDecl(d)
    \/ FileEnd
    \/ \E order \in RangeOrders(DOMAIN recorders) : Pkg(order)

SpecGen == Init /\ [][GenNext]_vars

\* MakePkg on a package with imports, build constraints and constructs the
\* generator has no case for
AbortNext ==
    \/ MakePkgBegin(DefaultCfg)
    \/ \E f \in Paths, tags \in BOOLEAN : FileBegin(f, tags)
    \/ \E d \in AbortDecls : FileDecl(d)
    \/ FileEnd
    \/ \E order \in RangeOrders(DOMAIN recorders) : Pkg(order)

SpecAbort == Init /\ [][AbortNext]_vars

----------------------------------------------------------------------------
(* Properties of the generated files *)

\* the base type of a receiver type text
BaseOf(t) == IF t[1] = "*" THEN Tail(t) ELSE t

\* the receiver base types met while the package was transformed
ReceiverBases == {BaseOf(t) : t \in DOMAIN recorders}

\* the positions of a list of items that hold an item of kind k
ItemsOfKind(items, k) == {i \in 1..Len(items) : items[i].k = k}

\* C12: when MakePkg is done, the scaffold file holds, for every receiver
\* base type met, exported or not, a constructor New<type> of a mock instance
\* and a recorder-returning accessor on the type
C12_CtorAndAccessor ==
    gPc = "done" =>
        \A name \in ReceiverBases :
            /\ \E i \in ItemsOfKind(scaffold, "ctor") : scaffold[i].n = StrNew \o name
            /\ \E i \in ItemsOfKind(scaffold, "accessor") : BaseOf(scaffold[i].r) = name

\* C13: the scaffold file declares the recorder type of a base type at most
\* once and its constructor at most once, the recorder of the pointer and of
\* the value receivers is the one named after the base type, and when both
\* receiver forms are met only the value form is written
C13_OncePerBase ==
    /\ \A f \in DOMAIN out : \A i \in ItemsOfKind(out[f], "recorder") :
           out[f][i - 1].k = "mock" /\ out[f][i - 1].r # <<>> =>
               out[f][i].r = <<"_">> \o BaseOf(out[f][i - 1].r) \o StrRecSuffix
    /\ gPc = "done" =>
           \A name \in ReceiverBases :
               /\ Cardinality({i \in ItemsOfKind(scaffold, "rectype") :
                                  scaffold[i].n = <<"_">> \o name \o StrRecSuffix}) = 1
               /\ Cardinality({i \in ItemsOfKind(scaffold, "ctor") :
                                  scaffold[i].n = StrNew \o name}) <= 1
               /\ Cardinality({i \in ItemsOfKind(scaffold, "accessor") :
                                  BaseOf(scaffold[i].r) = name}) = 1
               /\ \A i \in ItemsOfKind(scaffold, "rectype") \cup ItemsOfKind(scaffold, "accessor") :
                      ({name, WrapPtr \o name} \subseteq DOMAIN recorders
                       /\ BaseOf(scaffold[i].r) = name) => scaffold[i].r = name

\* C13 witness: a package with methods on t and on *t was generated, and the
\* scaffold holds the constructor of t once, returning the value form
C13_Witness ==
    /\ gPc = "done"
    /\ {StrTLower, WrapPtr \o StrTLower} \subseteq DOMAIN recorders
    /\ \E i \in ItemsOfKind(scaffold, "ctor") :
           scaffold[i].n = StrNew \o StrTLower /\ scaffold[i].r = StrMockPrefix \o StrTLower
    /\ \E i \in ItemsOfKind(scaffold, "rectype") : scaffold[i].r = StrTLower

\* a declaration with nothing exported in it: an unexported function, an
\* unexported method on an unexported type, an unexported type
IsPrivateDecl(d) ==
    \/ /\ d.kind = "FuncDecl"
       /\ ~IsExported(d.name)
       /\ d.recv # <<>> => ~IsExported(BaseOf(exprString(d.recv[1])))
    \/ /\ d.kind = "GenDecl"
       /\ d.tok = "TYPE"
       /\ \A i \in 1..Len(d.specs) : ~IsExported(d.specs[i].name)

\* every declaration read from the files of the package is private
AllPrivate ==
    \A f \in DOMAIN srcRead : \A i \in 1..Len(srcRead[f].decls) :
        IsPrivateDecl(srcRead[f].decls[i])

\* C14: for a package all of whose declarations are unexported, no file
\* holds a mock dispatcher or a recorder method, the scaffold file holds no
\* constructor, no recorder type and no recorder accessor of a type, and
\* every function is written with its body under its original name (an init
\* routine under the name the generator gives it)
C14_PrivateUntouched ==
    (gPc = "done" /\ AllPrivate) =>
        /\ \A f \in DOMAIN out :
               ItemsOfKind(out[f], "mock") \cup ItemsOfKind(out[f], "recorder") = {}
        /\ ItemsOfKind(scaffold, "mocktype") \cup ItemsOfKind(scaffold, "ctor")
               \cup ItemsOfKind(scaffold, "rectype") \cup ItemsOfKind(scaffold, "accessor") = {}
        /\ \A f \in DOMAIN srcRead : \A i \in 1..Len(srcRead[f].decls) :
               srcRead[f].decls[i].kind = "FuncDecl" =>
                   \E j \in ItemsOfKind(out[f], "real") :
                       \/ out[f][j].n = srcRead[f].decls[i].name
                       \/ /\ srcRead[f].decls[i].name = StrInitName
                          /\ srcRead[f].decls[i].recv = <<>>
                          /\ HasPrefix(out[f][j].n, StrRealInit)

\* a declaration with a construct the generator has no case for
IsUnsupported(d) ==
    \/ d.kind \notin {"FuncDecl", "GenDecl"}
    \/ d.kind = "FuncDecl" /\ \E i \in 1..Len(d.sig) : ~CanRender(d.sig[i])
    \/ d.kind = "GenDecl" /\ d.tok \notin {"IMPORT", "TYPE", "VAR", "CONST"}
    \/ d.kind = "GenDecl" /\ d.tok = "TYPE"
          /\ \E i \in 1..Len(d.specs) : ~CanRender(d.specs[i].type)
    \/ d.kind = "GenDecl" /\ d.tok \in {"VAR", "CONST"}
          /\ \E i \in 1..Len(d.specs) : ~CanRender(d.specs[i].value)

\* C15: a declaration with an unsupported construct (an expression kind
\* without a case, an unexpected interface member, an unknown declaration
\* or token) aborts the pass at once: nothing is written for it and no later
\* declaration is processed
C15_UnsupportedAborts ==
    [][\A d \in AbortDecls :
          (IsUnsupported(d) /\ FileDecl(d)) => (gPc' = "panicked" /\ out' = out)]_vars

\* an import declaration with a spec whose package name is not found
HasUnresolved(d) ==
    /\ d.kind = "GenDecl"
    /\ d.tok = "IMPORT"
    /\ \E i \in 1..Len(d.specs) :
           d.specs[i].name = <<>> /\ d.specs[i].path # GomockPath /\ ~Resolves(d.specs[i].path)

\* C16: an unresolved import name in a file with build constraints ends the
\* generation of that file without an error, nothing more being written to
\* it; in a file without build constraints m.file returns an error, and
\* MakePkg returns without writing the scaffold
C16_UnresolvedSkipsFile ==
    [][/\ \A d \in AbortDecls :
              (HasUnresolved(d) /\ FileDecl(d)) =>
                  IF buildTags THEN gPc' = "between" /\ out'[cur] = out[cur]
                  ELSE gPc' = "failed"
       /\ gPc' = "failed" => scaffold' = <<>>]_vars

\* C16 as amended: in a file with build constraints the import is written
\* without a name and is not registered, and the generation of the file goes
\* on; without build constraints m.file returns an error, and MakePkg
\* returns without writing the scaffold
C16_UnresolvedImportSoft ==
    [][/\ \A d \in AbortDecls :
              (HasUnresolved(d) /\ FileDecl(d)) =>
                  IF buildTags
                  THEN /\ gPc' = "file"
                       /\ Len(out'[cur]) = Len(out[cur]) + 1
                       /\ out'[cur][Len(out'[cur])].k = "import"
                       /\ \A n \in DOMAIN imports' : Resolves(imports'[n])
                  ELSE gPc' = "failed"
       /\ gPc' = "failed" => scaffold' = <<>>
       /\ gPc = "failed" => gPc' = "failed"]_vars

\* C16 witness: a file with build constraints got its unresolved import
\* written, then the dispatcher of Add, and the scaffold was written
C16_Witness ==
    /\ gPc = "done"
    /\ \E f \in DOMAIN out :
           /\ srcRead[f].tags
           /\ \E i \in ItemsOfKind(out[f], "import") :
                  /\ out[f][i].r = <<"gone", "LF">>
                  /\ \E j \in ItemsOfKind(out[f], "mock") : j > i /\ out[f][j].n = StrAdd
    /\ ItemsOfKind(scaffold, "EXPECT") # {}

----------------------------------------------------------------------------
(* The import marks (markImport, getMark) *)

\* the longest import label
MaxLabel == 2

\* noMark, normalMark, mockMark, testMark, replaceMark
noMark == <<>>
normalMark == <<"+">>
mockMark == <<"_">>
testMark == <<"@">>
replaceMark == <<"=">>

\* the marks markImport has a case for
Marks == {noMark, normalMark, mockMark, testMark, replaceMark}

\* the characters of the labels: the four sigils, a letter, a path separator
LabelChars == {"+", "_", "@", "=", "a", "/"}

\* the labels of at most MaxLabel characters, the empty one included
Labels == SeqsUpTo(LabelChars, MaxLabel)

\* mutant: the mark is put in front of the whole name
markImport_Prepend(name, m) ==
    IF m \in {noMark, normalMark} THEN name ELSE m \o name

\* markImport(name, m), for a name that is not empty
markImport(name, m) ==
    IF m \in {noMark, normalMark} THEN name ELSE m \o Tail(name)

\* getMark(label), for a label that is not empty
getMark(label) ==
    CASE label[1] = mockMark[1] -> mockMark
      [] label[1] = testMark[1] -> testMark
      [] label[1] = replaceMark[1] -> replaceMark
      [] OTHER -> normalMark

InitMark ==
    /\ InitPkg
    /\ InitScopeIdle
    /\ InitErrIdle
    /\ mkLabel \in Labels
    /\ mkMark \in Marks
    /\ mkOut = <<>>
    /\ mkGot = <<>>
    /\ mkPc = "in"

\* markImport(mkLabel, mkMark): name[1:] panics on the empty name
MarkImport ==
    /\ mkPc = "in"
    /\ IF mkLabel = <<>> /\ mkMark \notin {noMark, normalMark}
       THEN mkPc' = "panic" /\ mkOut' = mkOut
       ELSE mkPc' = "marked" /\ mkOut' = markImport(mkLabel, mkMark)
    /\ UNCHANGED <<mkLabel, mkMark, mkGot>>
    /\ UNCHANGED <<toggleVars, histVars, disp, cacheVars, scopeVars, genVars, errVars>>

\* getMark(mkOut): label[0] panics on the empty label
GetMark ==
    /\ mkPc = "marked"
    /\ IF mkOut = <<>>
       THEN mkPc' = "panic" /\ mkGot' = mkGot
       ELSE mkPc' = "read" /\ mkGot' = getMark(mkOut)
    /\ UNCHANGED <<mkLabel, mkMark, mkOut>>
    /\ UNCHANGED <<toggleVars, histVars, disp, cacheVars, scopeVars, genVars, errVars>>

MarkNext == MarkImport \/ GetMark

SpecMark == InitMark /\ [][MarkNext]_vars

\* C17: getMark gives a label the mark of its first character (mock, test,
\* replace for "_", "@", "=", normal otherwise); for a non-empty name and m
\* among mock, test, replace, getMark(markImport(name, m)) = m and
\* markImport(name, m) is name with its first character replaced; with normal
\* or no mark markImport returns the name unchanged
C17_MarkRoundTrip ==
    (mkPc = "read" /\ mkLabel # <<>>) =>
        /\ mkGot = (IF mkOut[1] = "_" THEN <<"_">>
                    ELSE IF mkOut[1] = "@" THEN <<"@">>
                    ELSE IF mkOut[1] = "=" THEN <<"=">>
                    ELSE <<"+">>)
        /\ mkMark \in {<<"_">>, <<"@">>, <<"=">>} =>
               /\ mkGot = mkMark
               /\ Len(mkOut) = Len(mkLabel)
               /\ \A i \in 2..Len(mkLabel) : mkOut[i] = mkLabel[i]
        /\ mkMark \in {<<"+">>, <<>>} => mkOut = mkLabel

\* C17 witness: the label "a/" was given the test mark and read back
C17_Witness ==
    /\ mkPc = "read"
    /\ mkLabel = <<"a", "/">>
    /\ mkMark = <<"@">>
    /\ mkOut = <<"@", "/">>
    /\ mkGot = <<"@">>

----------------------------------------------------------------------------
(* The mock of an interface type: function records with realDisabled set *)

\* func (_m *MockFoo) Wibble() error, of the mock of interface Foo
FnWibble ==
    [name |-> "Wibble", varidic |-> FALSE, realDisabled |-> TRUE,
     recv |-> [name |-> "_m", expr |-> "*MockFoo"],
     params |-> <<>>,
     results |-> <<Field(<<>>, "error")>>]

\* func (_m *MockFoo) Show(n int) (int, error), of the mock of interface Foo
FnShow ==
    [name |-> "Show", varidic |-> FALSE, realDisabled |-> TRUE,
     recv |-> [name |-> "_m", expr |-> "*MockFoo"],
     params |-> <<Field(<<"n">>, "int")>>,
     results |-> <<Field(<<>>, "int"), Field(<<>>, "error")>>]

\* the methods of the mock of an interface
IfaceFuncs == {FnWibble, FnShow}

\* their names as the toggle sets know them
IfaceNames == {ScopedName(fi) : fi \in IfaceFuncs}

\* test code with the mock of an interface: it may toggle the names of the
\* methods and it calls them
IfaceNext ==
    \/ \E b \in BOOLEAN : MockAll(b)
    \/ \E n \in IfaceNames : EnableMockOnly({n})
    \/ \E n \in IfaceNames : DisableMock({n})
    \/ \E fi \in IfaceFuncs : \E fixed \in FixedArgs(fi), variadic \in VariadicArgs(fi),
                                  ret \in CtrlRets(fi) :
           DispatchCall(fi, fixed, variadic, ret)

SpecIface == Init /\ [][IfaceNext]_vars

\* the function record of the latest call of a method of the mock
IfaceDispFn == CHOOSE fi \in IfaceFuncs : fi.name = disp.fn

\* C18: a call of a method whose real form is disabled goes to the
\* controller in every toggle state, and returns each value the expectation
\* gave for a result of its declared type (nil for an error)
C18_RealDisabledToCtrl ==
    disp.route # "none" =>
        /\ disp.route = "ctrl"
        /\ disp.realParams = <<>>
        /\ Len(disp.results) = Len(disp.ctrlRet)
        /\ \A i \in 1..Len(disp.ctrlRet) :
               LET t == ResultTypeAt(IfaceDispFn.results, i)
                   x == disp.ctrlRet[i]
               IN (x.dyn = t \/ (t = "error" /\ x.dyn \in {"*MyErr", "nil"})) =>
                      disp.results[i] = x

\* C18 witness: with the toggle state of a freshly loaded package, Wibble
\* was called and returned the error the expectation gave
C18_Witness ==
    /\ Toggle = DefaultToggle
    /\ disp.fn = "Wibble"
    /\ disp.route = "ctrl"
    /\ disp.ctrlRet = <<Val("*MyErr", 1)>>
    /\ disp.results = <<Val("*MyErr", 1)>>

----------------------------------------------------------------------------
(* Errors with context (utils.Err) *)

\* the deepest nesting of Err values around a root cause
MaxDepth == 3

\* the Ctxt labels
CtxtLabels == {<<"load">>, <<"parse">>, <<"c.getDetails(a.go)">>}

\* the root causes: errors that are no utils.Err, with their message and
\* with what os.IsNotExist says of them
RootCauses ==
    {[isNil |-> FALSE, msg |-> <<"no such file">>, notExist |-> TRUE],
     [isNil |-> FALSE, msg |-> <<"permission denied">>, notExist |-> FALSE]}

\* err.(Err) succeeds
IsErr(err) == "Ctxt" \in DOMAIN err

RECURSIVE ErrError(_)
\* c.Error(): the Error() of c.Err, down to the message of the root cause
ErrError(c) == IF IsErr(c) THEN ErrError(c.Err) ELSE c.msg

\* mutant: the context of the wrapped error is taken from its label alone
ErrContext_OneLevel(c) ==
    IF IsErr(c.Err) THEN c.Ctxt \o <<":">> \o c.Err.Ctxt ELSE c.Ctxt

RECURSIVE ErrContext(_)
\* c.Context()
ErrContext(c) ==
    IF IsErr(c.Err) THEN c.Ctxt \o <<":">> \o ErrContext(c.Err) ELSE c.Ctxt

RECURSIVE IsNotExist(_)
\* utils.IsNotExist(err)
IsNotExist(err) == IF IsErr(err) THEN IsNotExist(err.Err) ELSE err.notExist

InitErr ==
    /\ InitPkg
    /\ InitScopeIdle
    /\ InitMarkIdle
    /\ erRoot \in RootCauses
    /\ erVal = erRoot
    /\ erLabels = <<>>
    /\ erRead = <<>>
    /\ erPc = "built"

\* Err{label, erVal}: one more wrapper around the error
WrapErr(label) ==
    /\ erPc \in {"built", "read"}
    /\ Len(erLabels) < MaxDepth
    /\ erVal' = Err(label, erVal)
    /\ erLabels' = <<label>> \o erLabels
    /\ erRead' = <<>>
    /\ erPc' = "built"
    /\ UNCHANGED erRoot
    /\ UNCHANGED <<toggleVars, histVars, disp, cacheVars, scopeVars, genVars, markVars>>

\* Context(), Error() and IsNotExist of an Err value
ReadErr ==
    /\ erPc = "built"
    /\ IsErr(erVal)
    /\ erRead' = [context |-> ErrContext(erVal), error |-> ErrError(erVal),
                  notExist |-> IsNotExist(erVal)]
    /\ erPc' = "read"
    /\ UNCHANGED <<erVal, erLabels, erRoot>>
    /\ UNCHANGED <<toggleVars, histVars, disp, cacheVars, scopeVars, genVars, markVars>>

ErrNext ==
    \/ \E label \in CtxtLabels : WrapErr(label)
    \/ ReadErr

SpecErr == InitErr /\ [][ErrNext]_vars

RECURSIVE JoinColon(_)
\* the labels of a list joined by ":"
JoinColon(labels) ==
    IF Len(labels) = 1 THEN labels[1]
    ELSE labels[1] \o <<":">> \o JoinColon(Tail(labels))

\* C19: for n >= 1 nested Err values around a root cause, Context() is the
\* n labels joined by ":" from the outermost to the innermost, Error() is
\* the message of the root cause, and IsNotExist is os.IsNotExist of the
\* root cause
C19_ErrChain ==
    erPc = "read" =>
        /\ Len(erLabels) >= 1
        /\ erRead.context = JoinColon(erLabels)
        /\ Len(erRead.context) = 2 * Len(erLabels) - 1
        /\ erRead.error = erRoot.msg
        /\ erRead.notExist = erRoot.notExist

\* C19 witness: a missing file under three labels was read
C19_Witness ==
    /\ erPc = "read"
    /\ erLabels = <<<<"load">>, <<"parse">>, <<"c.getDetails(a.go)">>>>
    /\ erRead.context = <<"load", ":", "parse", ":", "c.getDetails(a.go)">>
    /\ erRead.error = <<"no such file">>
    /\ erRead.notExist

----------------------------------------------------------------------------
(* Two runs of MakePkg over the same source *)

\* the declarations of the packages generated twice
RunDecls == {FnDeclInit, FnDeclAddLower, FnDeclGet, FnDeclPut}

\* MakePkg is called again on the same directory: a new mockGen, and the
\* files and declarations the first run read
Rerun ==
    /\ gPc = "done"
    /\ run = 1
    /\ firstRun' = [src |-> srcRead, out |-> out, scaffold |-> scaffold]
    /\ run' = 2
    /\ gPc' = "between"
    /\ todo' = Paths
    /\ cur' = ""
    /\ buildTags' = FALSE
    /\ nRead' = 0
    /\ out' = EmptyGoMap
    /\ inits' = <<>>
    /\ initCount' = 0
    /\ recorders' = EmptyGoMap
    /\ types' = EmptyGoMap
    /\ extFunctions' = <<>>
    /\ imports' = EmptyGoMap
    /\ importSet' = {}
    /\ scaffold' = <<>>
    /\ srcRead' = EmptyGoMap
    /\ UNCHANGED cfg
    /\ UNCHANGED <<toggleVars, histVars, disp, cacheVars, scopeVars, markVars, errVars>>

RunsNext ==
    \/ MakePkgBegin(DefaultCfg)
    \/ \E f \in Paths : FileBegin(f, FALSE)
    \/ \E d \in RunDecls : FileDecl(d)
    \/ FileEnd
    \/ \E order \in RangeOrders(DOMAIN recorders) : Pkg(order)
    \/ Rerun

SpecRuns == Init /\ [][RunsNext]_vars

\* C20: a second run of MakePkg over the same source files writes the same
\* generated files and the same scaffold file as the first, whatever order
\* the files and the receiver types are enumerated in
C20_Deterministic ==
    (run = 2 /\ gPc = "done") =>
        /\ out = firstRun.out
        /\ scaffold = firstRun.scaffold

----------------------------------------------------------------------------
(* The renamed init functions of a package *)

\* whether an item of a generated file is a renamed init function
IsInitReal(item) == item.k = "real" /\ item.r = <<>> /\ HasPrefix(item.n, StrRealInit)

RECURSIVE NamesOf(_)
\* the names of a sequence of items
NamesOf(items) ==
    IF items = <<>> THEN <<>> ELSE <<Head(items).n>> \o NamesOf(Tail(items))

\* the names of the renamed init functions of the generated file f, in the
\* order they were written in
InitReals(f) == NamesOf(SelectSeq(out[f], IsInitReal))

\* whether a declaration of the source is an init function
IsInitDecl(d) == d.kind = "FuncDecl" /\ d.name = StrInitName /\ d.recv = <<>>

\* C21: every init function of the package is written under a name
\* _real_init_<n> no other init of the package has and never under the name
\* init; the synthesized init of each file passes to callInits the renamed
\* inits of that file, each once and in source order, and none of them when
\* init invocation is turned off
C21_InitsRenamed ==
    /\ \A f \in DOMAIN out :
           /\ Len(InitReals(f)) = Len(SelectSeq(srcRead[f].decls, IsInitDecl))
           /\ \A i \in 1..Len(InitReals(f)) :
                  \E n \in 0..(2 * MaxDecls + 2) :
                      InitReals(f)[i] = StrRealInit \o FormatInt(n)
           /\ \A i \in 1..Len(out[f]) :
                  ~(out[f][i].k = "real" /\ out[f][i].r = <<>> /\ out[f][i].n = StrInitName)
           /\ \A i \in 1..Len(out[f]) :
                  out[f][i].k = "init" =>
                      out[f][i].r = JoinNames(IF cfg.callInits THEN InitReals(f) ELSE <<>>)
    /\ \A f, g \in DOMAIN out :
           \A i \in 1..Len(InitReals(f)), j \in 1..Len(InitReals(g)) :
               InitReals(f)[i] = InitReals(g)[j] => (f = g /\ i = j)

\* C21 witness: a package of two files was generated to the end with init
\* invocation on, two init functions in a.go and one in b.go
C21_Witness ==
    /\ gPc = "done"
    /\ cfg.callInits
    /\ DOMAIN out = Paths
    /\ Len(InitReals("a.go")) = 2
    /\ Len(InitReals("b.go")) = 1

----------------------------------------------------------------------------
(* MockAll as the reset of the per-name overrides *)

\* where the dispatcher of a name whose real form is not disabled sends a call
RouteOf(name) == Route(name, FALSE)

\* C22: MockAll(b) leaves both sets empty, whatever they held, so that every
\* name is routed by b alone; an EnableMock or DisableMock call changes the
\* routing of the names it is given, to the controller or to the real
\* implementation, and of no other name
C22_MockAllResets ==
    [][/\ \A b \in BOOLEAN :
              MockAll(b) =>
                  /\ enabledMocks' = EmptyMap
                  /\ disabledMocks' = {}
                  /\ \A name \in Names : RouteOf(name)' = IF b THEN "ctrl" ELSE "real"
       /\ \A ns \in SUBSET Names :
              EnableMock(ns) =>
                  \A name \in Names :
                      RouteOf(name)' = IF name \in ns THEN "ctrl" ELSE RouteOf(name)
       /\ \A ns \in SUBSET Names :
              DisableMock(ns) =>
                  \A name \in Names :
                      RouteOf(name)' = IF name \in ns THEN "real" ELSE RouteOf(name)]_vars

\* C22 witness: both names were enabled, the sets were emptied with the flag
\* on, Add was disabled after that and its dispatcher called: the call went
\* to the real implementation, the other name being in neither set
C22_Witness ==
    /\ pc = "idle"
    /\ wasEnabled = Names
    /\ allMocked
    /\ enabledMocks = EmptyMap
    /\ disabledMocks = {"Add"}
    /\ call.name = "Add"
    /\ ~call.realDisabled
    /\ call.from = "idle"
    /\ call.route = "real"

----------------------------------------------------------------------------
(* AddScope: a function record moved into another package *)

\* a funcInfo whose type expressions are texts
FuncInfo(name, export, realDisabled, recv, params, results, body) ==
    [name |-> name, export |-> export,
     varidic |-> (params # <<>> /\ HasPrefix(params[Len(params)].expr, <<".", ".", ".">>)),
     realDisabled |-> realDisabled, recv |-> recv,
     params |-> params, results |-> results, body |-> body]

\* the receivers: none, (x T), (x *T), and an unnamed receiver of a
\* qualified type
Receivers ==
    {[name |-> "", expr |-> EmptyStr], [name |-> "x", expr |-> StrT],
     [name |-> "x", expr |-> WrapPtr \o StrT], [name |-> "", expr |-> StrPkgFoo]}

\* the parameter lists: (), (a, b int), (f Foo, vs ...Foo)
ParamLists ==
    {<<>>, <<Field(<<"a", "b">>, StrInt)>>,
     <<Field(<<"f">>, StrFoo), Field(<<"vs">>, StrEllipsisFoo)>>}

\* the result lists: (), (Foo, err error), []Foo
ResultLists ==
    {<<>>, <<Field(<<>>, StrFoo), Field(<<"err">>, StrError)>>,
     <<Field(<<>>, WrapSlice \o StrFoo)>>}

\* the function records AddScope is called on
ScopeFuncs ==
    {FuncInfo(name, export, rd, recv, params, results, body) :
        name \in {"Add", "Get"}, export \in {"", "c_add"}, rd \in BOOLEAN,
        recv \in Receivers, params \in ParamLists, results \in ResultLists,
        body \in {"", "{ return }"}}

\* fi.IsMethod() of a record whose type expressions are texts
IsMethodText(fi) == fi.recv.expr # EmptyStr

\* scopeFields(fields, scope)
scopeFields(fields, scope) ==
    [i \in 1..Len(fields) |->
        Field(fields[i].names, scopeName(fields[i].expr, scope))]

\* fi.AddScope(scope): the literal names no export, which is left empty
AddScope(fi, scope) ==
    [name |-> fi.name,
     export |-> "",
     varidic |-> fi.varidic,
     realDisabled |-> fi.realDisabled,
     recv |-> [name |-> fi.recv.name, expr |-> scopeName(fi.recv.expr, scope)],
     params |-> scopeFields(fi.params, scope),
     results |-> scopeFields(fi.results, scope),
     body |-> fi.body]

InitAddScope ==
    /\ InitPkg
    /\ InitMarkIdle
    /\ InitErrIdle
    /\ scName = <<>>
    /\ scOnce = <<>>
    /\ scTwice = <<>>
    /\ scScope \in Scopes
    /\ scFi \in ScopeFuncs
    /\ scCopy = NoFunc
    /\ scPc = "fn"

\* the call of AddScope: it reads the record and writes a new one
AddScopeCall ==
    /\ scPc = "fn"
    /\ scCopy' = AddScope(scFi, scScope)
    /\ scPc' = "copied"
    /\ UNCHANGED <<scName, scScope, scOnce, scTwice, scFi, toggleVars, histVars,
                   moreVars, disp, cacheVars>>

AddScopeNext == AddScopeCall

SpecAddScope == InitAddScope /\ [][AddScopeNext]_vars

\* the names of the fields of a list, one sequence for each field
FieldNames(fields) == [i \in 1..Len(fields) |-> fields[i].names]

\* C23: the copy AddScope returns has the name, the export alias, the
\* variadic flag, the realDisabled flag, the receiver name, the field names
\* and the body of the original, and IsMethod() of the copy is IsMethod() of
\* the original
C23_AddScopeFrame ==
    scPc = "copied" =>
        /\ scCopy.name = scFi.name
        /\ scCopy.export = scFi.export
        /\ scCopy.varidic = scFi.varidic
        /\ scCopy.realDisabled = scFi.realDisabled
        /\ scCopy.recv.name = scFi.recv.name
        /\ FieldNames(scCopy.params) = FieldNames(scFi.params)
        /\ FieldNames(scCopy.results) = FieldNames(scFi.results)
        /\ scCopy.body = scFi.body
        /\ IsMethodText(scCopy) = IsMethodText(scFi)

====
